---- MODULE Spec2Model ----
(***************************************************************************)
(* FootIQ python_agent: metric registry (stats_config.py), metric          *)
(* extraction and coercion (data_tools.py) and the quantitative tools      *)
(* (quant_tools.py).                                                       *)
(*                                                                         *)
(* Python values are records tagged by k: None, numbers, strings and       *)
(* other JSON values (lists, objects).  A number is the exact value        *)
(* (n / d) * 10^e in canonical form; the rounding of Python floats is not  *)
(* modelled.  A string is a sequence of one-character strings.             *)
(*                                                                         *)
(* The service around them: the TTL cache and the three data tools         *)
(* (data_tools.py), the tool-calling loop of run_agent (football_agent.py) *)
(* and the /agent/query handler (main.py), two requests at a time.         *)
(***************************************************************************)
EXTENDS Integers, Sequences, FiniteSets, TLC

VARIABLES
    op,          \* the function being called
    pc,          \* "start" before the call, "done" after it returned or raised
    statistics,  \* extraction: the observation list argument
    metric,      \* extraction: key of the MetricDef argument
    ret,         \* extraction: the value returned (or the exception raised)
    games,       \* quant: the list of normalized game dicts
    metric_key,  \* quant: the metric_key argument
    per90_value, \* compute_zscore: the per90_value argument
    baseline,    \* compute_zscore: the baselines.json entry looked up
    result,      \* quant: the QuantResult returned (or the exception raised)
    window,      \* compute_form: the window argument
    z,           \* interpret_zscore: the z argument
    raw,         \* normalization: the raw payload or record argument
    out,         \* what a normalization, stats-list or labelling call returned (or raised)
    _cache,      \* data_tools: the _store of the global TTLCache, key -> CacheEntry
    now,         \* time.time(), in seconds
    got,         \* TTLCache: the last get, when it was made and what it returned
    log,         \* data_tools: the tool calls made so far, with what each returned
    _request_context,  \* football_agent: the module-level request context
    req          \* the requests being served: each one's locals and its response

\* the variables of a call of one pure function
call == <<op, pc, statistics, metric, ret, games, metric_key, per90_value,
          baseline, result, window, z, raw, out>>

\* the variables of the service: cache, clock, tool calls and requests
service == <<_cache, now, got, log, _request_context, req>>

vars == <<call, service>>

-----------------------------------------------------------------------------
(* Bounds of the model *)

MaxStats == 3

MaxStrLen == 4

MaxGames == 3

MaxZ == 28

-----------------------------------------------------------------------------
(* Python values *)

None == [k |-> "None"]

Other == [k |-> "other"]

Str(s) == [k |-> "str", s |-> s]

AttributeError == [k |-> "raise", exc |-> "AttributeError"]

TypeError == [k |-> "raise", exc |-> "TypeError"]

ValueError == [k |-> "raise", exc |-> "ValueError"]

Abs(i) == IF i < 0 THEN -i ELSE i

RECURSIVE GCD(_, _)
GCD(a, b) == IF b = 0 THEN a ELSE GCD(b, a % b)

RECURSIVE Pow10(_)
Pow10(e) == IF e <= 0 THEN 1 ELSE 10 * Pow10(e - 1)

\* moves the factors 2 and 5 of the denominator into the decimal exponent
RECURSIVE ClearDen(_, _, _)
ClearDen(n, d, e) ==
    IF d % 2 = 0 THEN ClearDen(n * 5, d \div 2, e - 1)
    ELSE IF d % 5 = 0 THEN ClearDen(n * 2, d \div 5, e - 1)
    ELSE [n |-> n, d |-> d, e |-> e]

\* moves the factors 10 of the numerator into the decimal exponent
RECURSIVE ClearTens(_, _, _)
ClearTens(n, d, e) ==
    IF n % 10 = 0 THEN ClearTens(n \div 10, d, e + 1)
    ELSE [k |-> "num", n |-> n, d |-> d, e |-> e]

\* the number (n / d) * 10^e, d > 0, in canonical form
Num(n, d, e) ==
    IF n = 0 THEN [k |-> "num", n |-> 0, d |-> 1, e |-> 0]
    ELSE LET g == GCD(Abs(n), d)
             c == ClearDen(n \div g, d \div g, e)
         IN  ClearTens(c.n, c.d, c.e)

IntV(i) == Num(i, 1, 0)

IsNum(v) == v.k = "num"

Min(a, b) == IF a < b THEN a ELSE b

Add(a, b) ==
    LET e == Min(a.e, b.e)
        x == a.n * Pow10(a.e - e)
        y == b.n * Pow10(b.e - e)
    IN  Num(x * b.d + y * a.d, a.d * b.d, e)

Neg(a) == [a EXCEPT !.n = -a.n]

Sub(a, b) == Add(a, Neg(b))

Mul(a, b) == Num(a.n * b.n, a.d * b.d, a.e + b.e)

\* a / b for b # 0
Div(a, b) ==
    IF b.n < 0 THEN Num(-(a.n * b.d), a.d * (-b.n), a.e - b.e)
    ELSE Num(a.n * b.d, a.d * b.n, a.e - b.e)

Less(a, b) == Sub(a, b).n < 0

-----------------------------------------------------------------------------
(* Python str.strip(), int(str) and float(str) on the modelled characters *)

Digits == {"0", "1", "2", "3", "4", "5", "6", "7", "8", "9"}

DigitVal(c) ==
    CASE c = "0" -> 0 [] c = "1" -> 1 [] c = "2" -> 2 [] c = "3" -> 3
      [] c = "4" -> 4 [] c = "5" -> 5 [] c = "6" -> 6 [] c = "7" -> 7
      [] c = "8" -> 8 [] c = "9" -> 9

Whitespace == {" "}

RECURSIVE LStrip(_)
LStrip(s) ==
    IF s # <<>> /\ Head(s) \in Whitespace THEN LStrip(Tail(s)) ELSE s

RECURSIVE RStrip(_)
RStrip(s) ==
    IF s # <<>> /\ s[Len(s)] \in Whitespace
    THEN RStrip(SubSeq(s, 1, Len(s) - 1)) ELSE s

Strip(s) == RStrip(LStrip(s))

Contains(s, c) == \E i \in 1..Len(s) : s[i] = c

AllDigits(s) == \A i \in 1..Len(s) : s[i] \in Digits

\* index of the first c in s, Len(s) + 1 when there is none
RECURSIVE IndexOf(_, _, _)
IndexOf(s, c, i) ==
    IF i > Len(s) \/ s[i] = c THEN i ELSE IndexOf(s, c, i + 1)

\* value of a run of decimal digits, 0 for the empty run
RECURSIVE DigitsValue(_)
DigitsValue(s) ==
    IF s = <<>> THEN 0
    ELSE 10 * DigitsValue(SubSeq(s, 1, Len(s) - 1)) + DigitVal(s[Len(s)])

\* int(s): a non-empty run of digits (no sign or underscore is modelled)
PyInt(s) ==
    IF s # <<>> /\ AllDigits(s) THEN IntV(DigitsValue(s)) ELSE ValueError

\* float(s): digits [. [digits]] | . digits, then optionally e digits
PyFloat(s) ==
    LET ePos  == IndexOf(s, "e", 1)
        mant  == SubSeq(s, 1, ePos - 1)
        expo  == SubSeq(s, ePos + 1, Len(s))
        dot   == IndexOf(mant, ".", 1)
        whole == SubSeq(mant, 1, dot - 1)
        frac  == SubSeq(mant, dot + 1, Len(mant))
        okMant == /\ AllDigits(whole) /\ AllDigits(frac)
                  /\ Len(whole) + Len(frac) > 0
        okExp  == ePos > Len(s) \/ (expo # <<>> /\ AllDigits(expo))
    IN  IF okMant /\ okExp
        THEN Num(DigitsValue(whole \o frac), 1, DigitsValue(expo) - Len(frac))
        ELSE ValueError

-----------------------------------------------------------------------------
(* stats_config.py: the metric registry *)

NoTypeId == -1

MetricDef(id, key, avail, missing, rule, derived) ==
    [api_type_id |-> id, key |-> key, availability |-> avail,
     missing_semantic |-> missing, per90_rule |-> rule, is_derived |-> derived]

RATING == MetricDef(10, "rating", "L1", "missing", "na", FALSE)

GOALS == MetricDef(21, "goals", "L1", "true_zero", "per90_by_minutes", FALSE)

ASSISTS == MetricDef(22, "assists", "L1", "true_zero", "per90_by_minutes", FALSE)

MINUTES_PLAYED == MetricDef(11, "minutes_played", "L1", "true_zero", "na", FALSE)

YELLOW_CARDS ==
    MetricDef(14, "yellow_cards", "L1", "true_zero", "per90_by_minutes", FALSE)

RED_CARDS ==
    MetricDef(15, "red_cards", "L1", "true_zero", "per90_by_minutes", FALSE)

EXPECTED_GOALS ==
    MetricDef(42, "expected_goals", "L2", "missing", "per90_by_minutes", FALSE)

SHOTS_TOTAL ==
    MetricDef(56, "shots_total", "L2", "missing", "per90_by_minutes", FALSE)

SHOTS_ON_TARGET ==
    MetricDef(57, "shots_on_target", "L2", "missing", "per90_by_minutes", FALSE)

TOUCHES_IN_BOX ==
    MetricDef(55, "touches_in_box", "L2", "missing", "per90_by_minutes", FALSE)

KEY_PASSES ==
    MetricDef(45, "key_passes", "L2", "missing", "per90_by_minutes", FALSE)

TACKLES_WON ==
    MetricDef(78, "tackles_won", "L2", "missing", "per90_by_minutes", FALSE)

SHOT_ACCURACY ==
    MetricDef(NoTypeId, "shot_accuracy", "None", "missing", "weighted_ratio", TRUE)

GOAL_INVOLVEMENT ==
    MetricDef(NoTypeId, "goal_involvement", "None", "true_zero",
              "per90_by_minutes", TRUE)

XG_OVERPERFORMANCE ==
    MetricDef(NoTypeId, "xg_overperformance", "None", "missing", "na", TRUE)

MINUTES_PER_GOAL ==
    MetricDef(NoTypeId, "minutes_per_goal", "None", "missing", "na", TRUE)

ALL_RAW_METRICS ==
    <<RATING, GOALS, ASSISTS, MINUTES_PLAYED, YELLOW_CARDS, RED_CARDS,
      EXPECTED_GOALS, SHOTS_TOTAL, SHOTS_ON_TARGET, TOUCHES_IN_BOX,
      KEY_PASSES, TACKLES_WON>>

ALL_DERIVED_METRICS ==
    <<SHOT_ACCURACY, GOAL_INVOLVEMENT, XG_OVERPERFORMANCE, MINUTES_PER_GOAL>>

Range(seq) == {seq[i] : i \in 1..Len(seq)}

AllMetrics == Range(ALL_RAW_METRICS \o ALL_DERIVED_METRICS)

MetricKeys == {m.key : m \in AllMetrics}

\* KEY_TO_METRIC[key] for a key of the registry
KEY_TO_METRIC(key) == CHOOSE m \in AllMetrics : m.key = key

\* data_tools.LIVE_TYPE_ID_FALLBACKS.get(key, ())
LIVE_TYPE_ID_FALLBACKS(key) ==
    CASE key = "rating" -> <<0>>
      [] key = "minutes_played" -> <<229>>
      [] key = "goals" -> <<225>>
      [] key = "assists" -> <<226, 1>>
      [] OTHER -> <<>>

-----------------------------------------------------------------------------
(* Metric extraction *)

\* an observation {"type": t, "value": v}; a missing key reads as None
Stat(t, v) == [dict |-> TRUE, type |-> t, value |-> v]

\* an entry of the list that is not a mapping
NonDict == [dict |-> FALSE]

\* mutant: the missing policy is ignored and absence is always None
PolicyDefaultAlwaysNone(m) == None

\* the value the missing policy gives to an absent or null observation
PolicyDefault(m) == IF m.missing_semantic = "true_zero" THEN IntV(0) ELSE None

\* mutant: the value is tested for truth, so an observed 0 counts as null
RECURSIVE ExtractScanFalsy(_, _, _)
ExtractScanFalsy(stats, m, i) ==
    IF i > Len(stats) THEN PolicyDefault(m)
    ELSE IF ~stats[i].dict THEN AttributeError
    ELSE IF stats[i].type = m.api_type_id
         THEN IF stats[i].value # None /\ stats[i].value # IntV(0)
              THEN stats[i].value
              ELSE PolicyDefault(m)
    ELSE ExtractScanFalsy(stats, m, i + 1)

RECURSIVE ExtractScan(_, _, _)
ExtractScan(stats, m, i) ==
    IF i > Len(stats) THEN PolicyDefault(m)
    ELSE IF ~stats[i].dict THEN AttributeError
    ELSE IF stats[i].type = m.api_type_id
         THEN IF stats[i].value # None THEN stats[i].value
              ELSE PolicyDefault(m)
    ELSE ExtractScan(stats, m, i + 1)

extract_metric_value(stats, m) ==
    IF m.api_type_id = NoTypeId THEN None ELSE ExtractScan(stats, m, 1)

_coerce_numeric(value) ==
    IF IsNum(value) THEN value
    ELSE IF value.k = "str"
         THEN LET stripped == Strip(value.s)
                  parsed == IF Contains(stripped, ".") THEN PyFloat(stripped)
                            ELSE PyInt(stripped)
              IN  IF stripped = <<>> THEN None
                  ELSE IF parsed = ValueError THEN None
                  ELSE parsed
    ELSE value

RECURSIVE FindScan(_, _, _)
FindScan(stats, type_id, i) ==
    IF i > Len(stats) THEN [found |-> FALSE, value |-> None]
    ELSE IF ~stats[i].dict THEN FindScan(stats, type_id, i + 1)
    ELSE IF stats[i].type # type_id THEN FindScan(stats, type_id, i + 1)
    ELSE [found |-> TRUE, value |-> _coerce_numeric(stats[i].value)]

_find_stat_value(stats, type_id) == FindScan(stats, type_id, 1)

candidate_type_ids(m) == <<m.api_type_id>> \o LIVE_TYPE_ID_FALLBACKS(m.key)

\* mutant: an id found with a null value does not stop the search
RECURSIVE FallbackScanSkipNull(_, _, _)
FallbackScanSkipNull(stats, m, j) ==
    IF j > Len(candidate_type_ids(m)) THEN PolicyDefault(m)
    ELSE LET r == _find_stat_value(stats, candidate_type_ids(m)[j])
         IN  IF ~r.found \/ r.value = None
             THEN FallbackScanSkipNull(stats, m, j + 1)
             ELSE r.value

RECURSIVE FallbackScan(_, _, _)
FallbackScan(stats, m, j) ==
    IF j > Len(candidate_type_ids(m)) THEN PolicyDefault(m)
    ELSE LET r == _find_stat_value(stats, candidate_type_ids(m)[j])
         IN  IF ~r.found THEN FallbackScan(stats, m, j + 1)
             ELSE IF r.value = None THEN PolicyDefault(m)
             ELSE r.value

_extract_metric_value_with_fallback(stats, m) ==
    IF m.api_type_id = NoTypeId THEN None ELSE FallbackScan(stats, m, 1)

-----------------------------------------------------------------------------
(* Inputs of the extraction calls *)

RawKeys == {m.key : m \in Range(ALL_RAW_METRICS)}

UnknownTypeId == 999

Alphabet == {"1", "5", ".", "e", " "}

RECURSIVE SeqsUpTo(_, _)
SeqsUpTo(S, n) ==
    IF n = 0 THEN {<<>>}
    ELSE LET shorter == SeqsUpTo(S, n - 1)
         IN  shorter \cup {Append(s, x) : s \in {t \in shorter : Len(t) = n - 1}, x \in S}

Strings == SeqsUpTo(Alphabet, MaxStrLen)

NativeValues == {None, IntV(0), IntV(3)}

\* type ids an observation of the model carries when m is extracted
TypeIdsFor(m) ==
    IF m.api_type_id = NoTypeId THEN {UnknownTypeId}
    ELSE Range(candidate_type_ids(m)) \cup {UnknownTypeId}

NativeStats(m) ==
    {Stat(t, v) : t \in TypeIdsFor(m), v \in NativeValues} \cup {NonDict}

\* one observation under a candidate id whose value is a string or a list
TextStats(m) ==
    {<<Stat(t, v)>> : t \in TypeIdsFor(m) \ {UnknownTypeId},
                      v \in {Str(s) : s \in Strings} \cup {Other}}

StatsFor(m) == SeqsUpTo(NativeStats(m), MaxStats) \cup TextStats(m)

ExtractOps == {"extract_metric_value", "_extract_metric_value_with_fallback"}

NoResult == [k |-> "pending"]

\* the default of the window parameter of compute_form
DEFAULT_WINDOW == 5

\* the service at import: an empty cache and context, no request
NoService ==
    /\ _cache = <<>>
    /\ now = 0
    /\ got = NoResult
    /\ log = <<>>
    /\ _request_context = <<>>
    /\ req = <<>>

InitExtract ==
    /\ op \in ExtractOps
    /\ pc = "start"
    /\ metric \in RawKeys \cup {"shot_accuracy"}
    /\ statistics \in StatsFor(KEY_TO_METRIC(metric))
    /\ ret = NoResult
    /\ games = <<>>
    /\ metric_key = "goals"
    /\ per90_value = None
    /\ baseline = None
    /\ result = NoResult
    /\ window = DEFAULT_WINDOW
    /\ z = None
    /\ raw = None
    /\ out = NoResult
    /\ NoService

ExtractMetricValue ==
    /\ pc = "start"
    /\ op = "extract_metric_value"
    /\ ret' = extract_metric_value(statistics, KEY_TO_METRIC(metric))
    /\ pc' = "done"
    /\ UNCHANGED <<op, statistics, metric, games, metric_key, per90_value,
                   baseline, result>>
    /\ UNCHANGED <<window, z, raw, out>>
    /\ UNCHANGED service

ExtractMetricValueWithFallback ==
    /\ pc = "start"
    /\ op = "_extract_metric_value_with_fallback"
    /\ ret' = _extract_metric_value_with_fallback(statistics, KEY_TO_METRIC(metric))
    /\ pc' = "done"
    /\ UNCHANGED <<op, statistics, metric, games, metric_key, per90_value,
                   baseline, result>>
    /\ UNCHANGED <<window, z, raw, out>>
    /\ UNCHANGED service

NextExtract == ExtractMetricValue \/ ExtractMetricValueWithFallback

SpecExtract == InitExtract /\ [][NextExtract]_vars

-----------------------------------------------------------------------------
(* quant_tools.py: QuantResult, per-90, derived metrics, z-score *)

PER90_MIN_MINUTES == 90

QuantResult(value, raw_values, warnings, error) ==
    [k |-> "QuantResult", value |-> value, raw_values |-> raw_values,
     warnings |-> warnings, error |-> error]

\* an error text, named by the situation that produces it
ErrorText(what) == [k |-> "str", text |-> what]

Warning(code, details) == [code |-> code, details |-> details]

\* dict.get(key) and dict.get(key, default) on a dict modelled as a function
Get(dict, key) == IF key \in DOMAIN dict THEN dict[key] ELSE None

GetOr(dict, key, default) == IF key \in DOMAIN dict THEN dict[key] ELSE default

\* the accumulators of a summing loop
Acc(a, b, any, warnings) ==
    [k |-> "acc", total_a |-> a, total_b |-> b, has_any_value |-> any,
     warnings |-> warnings]

\* mutant: a game without the metric is counted as a zero
RECURSIVE Per90LoopZeroFill(_, _, _, _)
Per90LoopZeroFill(gs, key, i, acc) ==
    IF i > Len(gs) THEN acc
    ELSE LET metrics == gs[i].metrics
             val == Get(metrics, key)
             mins == GetOr(metrics, "minutes_played", IntV(0))
         IN  IF val = None
             THEN Per90LoopZeroFill(gs, key, i + 1,
                      Acc(acc.total_a, Add(acc.total_b, mins), TRUE,
                          Append(acc.warnings,
                                 Warning("METRIC_UNAVAILABLE",
                                         [game_id |-> gs[i].game_id, metric |-> key]))))
             ELSE Per90LoopZeroFill(gs, key, i + 1,
                      Acc(Add(acc.total_a, val), Add(acc.total_b, mins), TRUE,
                          acc.warnings))

\* the loop of compute_per90; total_a is total_metric, total_b is total_minutes
RECURSIVE Per90Loop(_, _, _, _)
Per90Loop(gs, key, i, acc) ==
    IF i > Len(gs) THEN acc
    ELSE LET metrics == gs[i].metrics
             val == Get(metrics, key)
             mins == GetOr(metrics, "minutes_played", IntV(0))
         IN  IF val = None
             THEN Per90Loop(gs, key, i + 1,
                      Acc(acc.total_a, acc.total_b, acc.has_any_value,
                          Append(acc.warnings,
                                 Warning("METRIC_UNAVAILABLE",
                                         [game_id |-> gs[i].game_id, metric |-> key]))))
             ELSE IF ~IsNum(val) \/ ~IsNum(mins) THEN TypeError
             ELSE Per90Loop(gs, key, i + 1,
                      Acc(Add(acc.total_a, val), Add(acc.total_b, mins), TRUE,
                          acc.warnings))

RECURSIVE ShotAccuracyLoop(_, _, _)
ShotAccuracyLoop(gs, i, acc) ==
    IF i > Len(gs) THEN acc
    ELSE LET m == gs[i].metrics
             on_target == Get(m, "shots_on_target")
             total == Get(m, "shots_total")
         IN  IF on_target = None \/ total = None
             THEN ShotAccuracyLoop(gs, i + 1,
                      Acc(acc.total_a, acc.total_b, acc.has_any_value,
                          Append(acc.warnings,
                                 Warning("METRIC_UNAVAILABLE",
                                         [game_id |-> gs[i].game_id]))))
             ELSE IF ~IsNum(on_target) \/ ~IsNum(total) THEN TypeError
             ELSE ShotAccuracyLoop(gs, i + 1,
                      Acc(Add(acc.total_a, on_target), Add(acc.total_b, total),
                          TRUE, acc.warnings))

\* mutant: the zero test of the denominator is on the numerator
ShotAccuracyZeroNumerator(gs) ==
    LET acc == ShotAccuracyLoop(gs, 1, Acc(IntV(0), IntV(0), FALSE, <<>>))
    IN  IF acc = TypeError THEN TypeError
        ELSE IF acc.total_a = IntV(0) \/ acc.total_b = IntV(0)
             THEN QuantResult(None, <<>>, acc.warnings, None)
        ELSE QuantResult(Div(acc.total_a, acc.total_b), <<>>, acc.warnings, None)

\* total_a is total_on, total_b is total_shots
_compute_shot_accuracy(gs) ==
    LET acc == ShotAccuracyLoop(gs, 1, Acc(IntV(0), IntV(0), FALSE, <<>>))
    IN  IF acc = TypeError THEN TypeError
        ELSE IF acc.total_b = IntV(0)
             THEN QuantResult(None, <<>>, acc.warnings, None)
        ELSE QuantResult(Div(acc.total_a, acc.total_b), <<>>, acc.warnings, None)

\* mutant: a game without goals is skipped, its assists with it
RECURSIVE GoalInvolvementLoopSkipGame(_, _, _)
GoalInvolvementLoopSkipGame(gs, i, acc) ==
    IF i > Len(gs) THEN acc
    ELSE LET m == gs[i].metrics
             g == Get(m, "goals")
             a == Get(m, "assists")
         IN  IF (g # None /\ ~IsNum(g)) \/ (a # None /\ ~IsNum(a)) THEN TypeError
             ELSE IF g = None
             THEN GoalInvolvementLoopSkipGame(gs, i + 1, acc)
             ELSE GoalInvolvementLoopSkipGame(gs, i + 1,
                      Acc(Add(acc.total_a, g),
                          IF a # None THEN Add(acc.total_b, a) ELSE acc.total_b,
                          TRUE, acc.warnings))

RECURSIVE GoalInvolvementLoop(_, _, _)
GoalInvolvementLoop(gs, i, acc) ==
    IF i > Len(gs) THEN acc
    ELSE LET m == gs[i].metrics
             g == Get(m, "goals")
             a == Get(m, "assists")
         IN  IF (g # None /\ ~IsNum(g)) \/ (a # None /\ ~IsNum(a)) THEN TypeError
             ELSE GoalInvolvementLoop(gs, i + 1,
                      Acc(IF g # None THEN Add(acc.total_a, g) ELSE acc.total_a,
                          IF a # None THEN Add(acc.total_b, a) ELSE acc.total_b,
                          TRUE, acc.warnings))

\* total_a is total_goals, total_b is total_assists
_compute_goal_involvement(gs) ==
    LET acc == GoalInvolvementLoop(gs, 1, Acc(IntV(0), IntV(0), FALSE, <<>>))
    IN  IF acc = TypeError THEN TypeError
        ELSE QuantResult(Add(acc.total_a, acc.total_b), <<>>, <<>>, None)

\* mutant: a game without xG is skipped with its warning and the sum goes on
RECURSIVE XgLoopSkipMissing(_, _, _)
XgLoopSkipMissing(gs, i, acc) ==
    IF i > Len(gs) THEN acc
    ELSE LET m == gs[i].metrics
             g == Get(m, "goals")
             xg == Get(m, "expected_goals")
         IN  IF xg = None
             THEN XgLoopSkipMissing(gs, i + 1,
                      Acc(acc.total_a, acc.total_b, acc.has_any_value,
                          Append(acc.warnings,
                                 Warning("METRIC_UNAVAILABLE",
                                         [game_id |-> gs[i].game_id,
                                          metric |-> "expected_goals"]))))
             ELSE IF (g # None /\ ~IsNum(g)) \/ ~IsNum(xg) THEN TypeError
             ELSE XgLoopSkipMissing(gs, i + 1,
                      Acc(Add(acc.total_a, IF g # None THEN g ELSE IntV(0)),
                          Add(acc.total_b, xg), TRUE, acc.warnings))

\* the loop of _compute_xg_overperformance: total_a is total_goals, total_b is
\* total_xg; the loop returns the QuantResult itself when it meets a missing xG
RECURSIVE XgLoop(_, _, _)
XgLoop(gs, i, acc) ==
    IF i > Len(gs) THEN acc
    ELSE LET m == gs[i].metrics
             g == Get(m, "goals")
             xg == Get(m, "expected_goals")
         IN  IF xg = None
             THEN QuantResult(None, <<>>,
                      Append(acc.warnings,
                             Warning("METRIC_UNAVAILABLE",
                                     [game_id |-> gs[i].game_id,
                                      metric |-> "expected_goals"])),
                      None)
             ELSE IF (g # None /\ ~IsNum(g)) \/ ~IsNum(xg) THEN TypeError
             ELSE XgLoop(gs, i + 1,
                      Acc(Add(acc.total_a, IF g # None THEN g ELSE IntV(0)),
                          Add(acc.total_b, xg), TRUE, acc.warnings))

_compute_xg_overperformance(gs) ==
    LET acc == XgLoop(gs, 1, Acc(IntV(0), IntV(0), FALSE, <<>>))
    IN  IF acc = TypeError THEN TypeError
        ELSE IF acc.k = "QuantResult" THEN acc
        ELSE QuantResult(Sub(acc.total_a, acc.total_b), <<>>, acc.warnings, None)

RECURSIVE MinutesPerGoalLoop(_, _, _)
MinutesPerGoalLoop(gs, i, acc) ==
    IF i > Len(gs) THEN acc
    ELSE LET m == gs[i].metrics
             mins == GetOr(m, "minutes_played", IntV(0))
             g == GetOr(m, "goals", IntV(0))
         IN  IF ~IsNum(mins) \/ ~IsNum(g) THEN TypeError
             ELSE MinutesPerGoalLoop(gs, i + 1,
                      Acc(Add(acc.total_a, mins), Add(acc.total_b, g), TRUE,
                          acc.warnings))

\* total_a is total_mins, total_b is total_goals
_compute_minutes_per_goal(gs) ==
    LET acc == MinutesPerGoalLoop(gs, 1, Acc(IntV(0), IntV(0), FALSE, <<>>))
    IN  IF acc = TypeError THEN TypeError
        ELSE IF acc.total_b = IntV(0)
             THEN QuantResult(None, <<>>,
                      <<Warning("METRIC_UNAVAILABLE", [total_goals |-> 0])>>, None)
        ELSE QuantResult(Div(acc.total_a, acc.total_b), <<>>, <<>>, None)

compute_derived(gs, key) ==
    IF key \notin MetricKeys
    THEN QuantResult(None, <<>>, <<>>, ErrorText("Unknown metric"))
    ELSE IF ~KEY_TO_METRIC(key).is_derived
    THEN QuantResult(None, <<>>, <<>>, ErrorText("is not a derived metric"))
    ELSE IF key = "shot_accuracy" THEN _compute_shot_accuracy(gs)
    ELSE IF key = "goal_involvement" THEN _compute_goal_involvement(gs)
    ELSE IF key = "xg_overperformance" THEN _compute_xg_overperformance(gs)
    ELSE IF key = "minutes_per_goal" THEN _compute_minutes_per_goal(gs)
    ELSE QuantResult(None, <<>>, <<>>,
                     ErrorText("No computation defined for derived metric"))

\* mutant: the per-game warnings are lost when no game has a value, and the
\* aggregate warning is dropped with them
Per90TailNoAggregate(key, acc) ==
    IF acc = TypeError THEN TypeError
    ELSE IF ~acc.has_any_value
    THEN QuantResult(None, <<>>, <<>>, None)
    ELSE IF Less(acc.total_b, IntV(PER90_MIN_MINUTES))
    THEN QuantResult(None, <<>>,
             Append(acc.warnings,
                    Warning("INSUFFICIENT_MINUTES",
                            [total_minutes |-> acc.total_b,
                             threshold |-> PER90_MIN_MINUTES])),
             None)
    ELSE QuantResult(Mul(Div(acc.total_a, acc.total_b), IntV(90)), <<>>,
                     acc.warnings, None)

\* mutant: the minutes threshold is tested with <= 0, as a guard against the
\* division by zero only
Per90TailNoThreshold(key, acc) ==
    IF acc = TypeError THEN TypeError
    ELSE IF ~acc.has_any_value
    THEN QuantResult(None, <<>>,
             <<Warning("METRIC_UNAVAILABLE", [metric |-> key])>>, None)
    ELSE IF ~Less(IntV(0), acc.total_b)
    THEN QuantResult(None, <<>>,
             Append(acc.warnings,
                    Warning("INSUFFICIENT_MINUTES",
                            [total_minutes |-> acc.total_b,
                             threshold |-> PER90_MIN_MINUTES])),
             None)
    ELSE QuantResult(Mul(Div(acc.total_a, acc.total_b), IntV(90)), <<>>,
                     acc.warnings, None)

\* compute_per90 after its loop: the checks on what was accumulated
Per90Tail(key, acc) ==
    IF acc = TypeError THEN TypeError
    ELSE IF ~acc.has_any_value
    THEN QuantResult(None, <<>>,
             <<Warning("METRIC_UNAVAILABLE", [metric |-> key])>>, None)
    ELSE IF Less(acc.total_b, IntV(PER90_MIN_MINUTES))
    THEN QuantResult(None, <<>>,
             Append(acc.warnings,
                    Warning("INSUFFICIENT_MINUTES",
                            [total_minutes |-> acc.total_b,
                             threshold |-> PER90_MIN_MINUTES])),
             None)
    ELSE QuantResult(Mul(Div(acc.total_a, acc.total_b), IntV(90)), <<>>,
                     acc.warnings, None)

\* mutant: a metric without a per-90 rate yields an empty result, no error
ComputePer90NaIsAbsence(gs, key) ==
    IF key \notin MetricKeys
    THEN QuantResult(None, <<>>, <<>>, ErrorText("Unknown metric"))
    ELSE IF KEY_TO_METRIC(key).per90_rule = "na"
    THEN QuantResult(None, <<>>,
             <<Warning("METRIC_UNAVAILABLE", [metric |-> key])>>, None)
    ELSE IF KEY_TO_METRIC(key).per90_rule = "weighted_ratio"
    THEN compute_derived(gs, key)
    ELSE Per90Tail(key, Per90Loop(gs, key, 1, Acc(IntV(0), IntV(0), FALSE, <<>>)))

compute_per90(gs, key) ==
    IF key \notin MetricKeys
    THEN QuantResult(None, <<>>, <<>>, ErrorText("Unknown metric"))
    ELSE IF KEY_TO_METRIC(key).per90_rule = "na"
    THEN QuantResult(None, <<>>, <<>>,
                     ErrorText("does not support per-90 normalization"))
    ELSE IF KEY_TO_METRIC(key).per90_rule = "weighted_ratio"
    THEN compute_derived(gs, key)
    ELSE Per90Tail(key, Per90Loop(gs, key, 1, Acc(IntV(0), IntV(0), FALSE, <<>>)))

BaselineMissing(details) == Warning("BASELINE_MISSING", details)

\* compute_zscore with the looked-up baselines entry (None when the league,
\* season, position or metric has none) in place of the four lookup keys
compute_zscore(value, key, entry) ==
    IF value = None
    THEN QuantResult(None, <<>>, <<>>,
                     ErrorText("Cannot compute z-score: per90_value is None"))
    ELSE IF entry = None
    THEN QuantResult(value, <<>>,
             <<BaselineMissing([fallback |-> "raw_per90",
                                league |-> "premier_league",
                                season |-> "2025_2026",
                                position |-> "all_positions",
                                metric |-> key])>>, None)
    ELSE LET mean == Get(entry, "mean")
             std == Get(entry, "std")
             n == GetOr(entry, "n", IntV(0))
         IN  IF std = None \/ std = IntV(0)
             THEN QuantResult(value, <<>>,
                      <<BaselineMissing([fallback |-> "raw_per90",
                                         reason |-> "zero_variance",
                                         metric |-> key])>>, None)
             ELSE IF ~IsNum(n) THEN TypeError
             ELSE IF Less(n, IntV(30))
             THEN QuantResult(value, <<>>,
                      <<BaselineMissing([fallback |-> "raw_per90",
                                         reason |-> "low_sample", n |-> n,
                                         metric |-> key])>>, None)
             ELSE IF ~IsNum(mean) \/ ~IsNum(std) THEN TypeError
             ELSE QuantResult(Div(Sub(value, mean), std), <<>>, <<>>, None)

\* games[:window], Python's slice: a negative window counts from the end
Slice(gs, w) ==
    IF w >= 0 THEN SubSeq(gs, 1, IF w < Len(gs) THEN w ELSE Len(gs))
    ELSE SubSeq(gs, 1, IF Len(gs) + w > 0 THEN Len(gs) + w ELSE 0)

\* mutant: a game without a value leaves no entry in the series
RECURSIVE FormLoopSkipAbsent(_, _, _, _)
FormLoopSkipAbsent(gs, key, i, values) ==
    IF i > Len(gs) THEN values
    ELSE LET val == Get(gs[i].metrics, key)
         IN  FormLoopSkipAbsent(gs, key, i + 1,
                 IF val = None THEN values ELSE Append(values, val))

\* the loop of compute_form over the sliced games
RECURSIVE FormLoop(_, _, _, _)
FormLoop(gs, key, i, values) ==
    IF i > Len(gs) THEN values
    ELSE FormLoop(gs, key, i + 1, Append(values, Get(gs[i].metrics, key)))

compute_form(gs, key, w) ==
    LET values == FormLoop(Slice(gs, w), key, 1, <<>>)
    IN  QuantResult(
            IntV(Cardinality({i \in 1..Len(values) : values[i] # None})),
            values, <<>>, None)

\* abs() of a number
NumAbs(x) == IF x.n < 0 THEN Neg(x) ELSE x

\* a >= b
AtLeast(x, b) == ~Less(x, b)

\* mutant: the breakpoints are exclusive
InterpretZscoreExclusive(zs) ==
    IF zs = None THEN "unavailable"
    ELSE IF ~IsNum(zs) THEN TypeError
    ELSE LET abs_z == NumAbs(zs)
             direction == IF Less(IntV(0), zs) THEN "above" ELSE "below"
         IN  IF Less(IntV(3), abs_z)
             THEN "Extraordinary (" \o direction \o " average)"
             ELSE IF Less(IntV(2), abs_z)
             THEN "Exceptional (" \o direction \o " average)"
             ELSE IF Less(IntV(1), abs_z)
             THEN "Notably " \o direction \o " average"
             ELSE IF Less(Num(5, 10, 0), abs_z)
             THEN "Slightly " \o direction \o " average"
             ELSE "Average"

interpret_zscore(zs) ==
    IF zs = None THEN "unavailable"
    ELSE IF ~IsNum(zs) THEN TypeError
    ELSE LET abs_z == NumAbs(zs)
             direction == IF Less(IntV(0), zs) THEN "above" ELSE "below"
         IN  IF AtLeast(abs_z, IntV(3))
             THEN "Extraordinary (" \o direction \o " average)"
             ELSE IF AtLeast(abs_z, IntV(2))
             THEN "Exceptional (" \o direction \o " average)"
             ELSE IF AtLeast(abs_z, IntV(1))
             THEN "Notably " \o direction \o " average"
             ELSE IF AtLeast(abs_z, Num(5, 10, 0))
             THEN "Slightly " \o direction \o " average"
             ELSE "Average"

-----------------------------------------------------------------------------
(* Inputs of the quant calls *)

\* the values a metrics dict holds under a key: a TRUE_ZERO metric is never
\* None in a normalized game, a MISSING metric may be
ValuesOf(key) ==
    CASE key = "minutes_played" -> {IntV(45), IntV(90)}
      [] key = "rating" -> {None, Num(72, 10, 0)}
      [] key = "expected_goals" -> {None, IntV(1), Num(135, 100, 0)}
      [] key = "shots_total" -> {None, IntV(0), IntV(5)}
      [] key = "shots_on_target" -> {None, IntV(0), IntV(3)}
      [] key \in RawKeys /\ KEY_TO_METRIC(key).missing_semantic = "true_zero"
           -> {IntV(0), IntV(2)}
      [] OTHER -> {None, IntV(0), IntV(2)}

AllValues == UNION {ValuesOf(key) : key \in RawKeys}

\* the dicts that hold some of the keys, each with one of its values
DictsOver(keys) ==
    UNION {{f \in [S -> AllValues] : \A key \in S : f[key] \in ValuesOf(key)} :
           S \in SUBSET keys}

\* the metric keys that a call for key reads in a game
KeysRead(key) ==
    CASE key = "shot_accuracy" -> {"shots_on_target", "shots_total"}
      [] key = "goal_involvement" -> {"goals", "assists"}
      [] key = "xg_overperformance" -> {"goals", "expected_goals"}
      [] key = "minutes_per_goal" -> {"minutes_played", "goals"}
      [] key \in RawKeys -> {key, "minutes_played"}
      [] OTHER -> {"goals", "minutes_played"}

QuantKeys == MetricKeys \cup {"nonexistent"}

\* a call that returns before it reads the games
ReturnsEarly(o, key) ==
    \/ key \notin MetricKeys
    \/ o = "compute_per90" /\ KEY_TO_METRIC(key).per90_rule = "na"
    \/ o = "compute_derived" /\ ~KEY_TO_METRIC(key).is_derived

\* game lists: game i has game_id i
GamesFor(o, key) ==
    LET n == IF ReturnsEarly(o, key) THEN 1 ELSE MaxGames
    IN  {[i \in 1..Len(ms) |-> [game_id |-> i, metrics |-> ms[i]]] :
         ms \in SeqsUpTo(DictsOver(KeysRead(key)), n)}

Per90Values == {None, IntV(0), IntV(1), Num(450, 433, 0)}

\* entries of baselines.json, and None for a league, season, position or
\* metric that has none
Baselines ==
    {None} \cup
    {f \in [{"mean", "std", "n"} -> {None, IntV(0), IntV(29), IntV(30),
                                     Num(25, 100, 0), Num(22, 100, 0)}] :
        /\ f["mean"] = Num(25, 100, 0)
        /\ f["std"] \in {None, IntV(0), Num(22, 100, 0)}
        /\ f["n"] \in {IntV(29), IntV(30)}} \cup
    {f \in [{"mean", "std"} -> {IntV(0), Num(25, 100, 0), Num(22, 100, 0)}] :
        /\ f["mean"] = Num(25, 100, 0)
        /\ f["std"] \in {IntV(0), Num(22, 100, 0)}}

QuantOps == {"compute_per90", "compute_derived", "compute_zscore"}

InitQuant ==
    /\ op \in QuantOps
    /\ pc = "start"
    /\ statistics = <<>>
    /\ metric = "goals"
    /\ ret = NoResult
    /\ metric_key \in IF op = "compute_zscore" THEN {"goals"} ELSE QuantKeys
    /\ games \in IF op = "compute_zscore" THEN {<<>>} ELSE GamesFor(op, metric_key)
    /\ per90_value \in IF op = "compute_zscore" THEN Per90Values ELSE {None}
    /\ baseline \in IF op = "compute_zscore" THEN Baselines ELSE {None}
    /\ result = NoResult
    /\ window = DEFAULT_WINDOW
    /\ z = None
    /\ raw = None
    /\ out = NoResult
    /\ NoService

ComputePer90 ==
    /\ pc = "start"
    /\ op = "compute_per90"
    /\ result' = compute_per90(games, metric_key)
    /\ pc' = "done"
    /\ UNCHANGED <<op, statistics, metric, ret, games, metric_key, per90_value,
                   baseline>>
    /\ UNCHANGED <<window, z, raw, out>>
    /\ UNCHANGED service

ComputeDerived ==
    /\ pc = "start"
    /\ op = "compute_derived"
    /\ result' = compute_derived(games, metric_key)
    /\ pc' = "done"
    /\ UNCHANGED <<op, statistics, metric, ret, games, metric_key, per90_value,
                   baseline>>
    /\ UNCHANGED <<window, z, raw, out>>
    /\ UNCHANGED service

ComputeZscore ==
    /\ pc = "start"
    /\ op = "compute_zscore"
    /\ result' = compute_zscore(per90_value, metric_key, baseline)
    /\ pc' = "done"
    /\ UNCHANGED <<op, statistics, metric, ret, games, metric_key, per90_value,
                   baseline>>
    /\ UNCHANGED <<window, z, raw, out>>
    /\ UNCHANGED service

NextQuant == ComputePer90 \/ ComputeDerived \/ ComputeZscore

SpecQuant == InitQuant /\ [][NextQuant]_vars

-----------------------------------------------------------------------------
(* Aggregation over games whose values may be None *)

\* the values a caller-supplied metrics dict holds under a key: any metric
\* may be None there
NullableValuesOf(key) ==
    CASE key = "minutes_played" -> {None, IntV(45), IntV(90)}
      [] key = "expected_goals" -> {None, IntV(1), Num(135, 100, 0)}
      [] key = "assists" -> {None, IntV(0), IntV(1)}
      [] OTHER -> {None, IntV(0), IntV(2)}

NullableValues == UNION {NullableValuesOf(key) : key \in RawKeys}

NullableDictsOver(keys) ==
    UNION {{f \in [S -> NullableValues] :
               \A key \in S : f[key] \in NullableValuesOf(key)} :
           S \in SUBSET keys}

NullableGamesFor(key) ==
    {[i \in 1..Len(ms) |-> [game_id |-> i, metrics |-> ms[i]]] :
     ms \in SeqsUpTo(NullableDictsOver(KeysRead(key)), MaxGames)}

\* the calls of the aggregation functions that sum over every game
NullableCalls ==
    {<<"compute_per90", "goals">>, <<"compute_per90", "expected_goals">>,
     <<"compute_derived", "goal_involvement">>,
     <<"compute_derived", "xg_overperformance">>,
     <<"compute_derived", "minutes_per_goal">>}

InitNullable ==
    /\ \E c \in NullableCalls : op = c[1] /\ metric_key = c[2]
    /\ pc = "start"
    /\ statistics = <<>>
    /\ metric = "goals"
    /\ ret = NoResult
    /\ games \in NullableGamesFor(metric_key)
    /\ per90_value = None
    /\ baseline = None
    /\ result = NoResult
    /\ window = DEFAULT_WINDOW
    /\ z = None
    /\ raw = None
    /\ out = NoResult
    /\ NoService

NextNullable == ComputePer90 \/ ComputeDerived

SpecNullable == InitNullable /\ [][NextNullable]_vars

-----------------------------------------------------------------------------
(* Form series *)

FormKeys == {"goals", "rating", "nonexistent"}

\* game lists for compute_form: game i has game_id i, and its metrics hold
\* the key or not
FormGamesFor(key) ==
    {[i \in 1..Len(ms) |-> [game_id |-> i, metrics |-> ms[i]]] :
     ms \in SeqsUpTo(NullableDictsOver({IF key \in RawKeys THEN key ELSE "goals"}),
                     MaxGames)}

\* window: the number of games to include
Windows == 0..DEFAULT_WINDOW

InitForm ==
    /\ op = "compute_form"
    /\ pc = "start"
    /\ statistics = <<>>
    /\ metric = "goals"
    /\ ret = NoResult
    /\ metric_key \in FormKeys
    /\ games \in FormGamesFor(metric_key)
    /\ per90_value = None
    /\ baseline = None
    /\ result = NoResult
    /\ window \in Windows
    /\ z = None
    /\ raw = None
    /\ out = NoResult
    /\ NoService

ComputeForm ==
    /\ pc = "start"
    /\ op = "compute_form"
    /\ result' = compute_form(games, metric_key, window)
    /\ pc' = "done"
    /\ UNCHANGED <<op, statistics, metric, ret, games, metric_key, per90_value,
                   baseline>>
    /\ UNCHANGED <<window, z, raw, out>>
    /\ UNCHANGED service

SpecForm == InitForm /\ [][ComputeForm]_vars

-----------------------------------------------------------------------------
(* Z-score labels *)

\* z-scores in eighths, from -MaxZ / 8 to MaxZ / 8, and None
ZScores == {None} \cup {Num(k, 8, 0) : k \in (-MaxZ)..MaxZ}

InitInterpret ==
    /\ op = "interpret_zscore"
    /\ pc = "start"
    /\ statistics = <<>>
    /\ metric = "goals"
    /\ ret = NoResult
    /\ metric_key = "goals"
    /\ games = <<>>
    /\ per90_value = None
    /\ baseline = None
    /\ result = NoResult
    /\ window = DEFAULT_WINDOW
    /\ z \in ZScores
    /\ raw = None
    /\ out = NoResult
    /\ NoService

InterpretZscore ==
    /\ pc = "start"
    /\ op = "interpret_zscore"
    /\ out' = [k |-> "label", text |-> interpret_zscore(z)]
    /\ pc' = "done"
    /\ UNCHANGED <<op, statistics, metric, ret, games, metric_key, per90_value,
                   baseline, result, window, z, raw>>
    /\ UNCHANGED service

SpecInterpret == InitInterpret /\ [][InterpretZscore]_vars

-----------------------------------------------------------------------------
(* Raw payloads (data_tools.py) *)

\* a JSON object with the fields f, and a JSON list; Other stands for a value
\* that is neither where one of them is expected
Dict(f) == [k |-> "dict", f |-> f]

ListV(items) == [k |-> "list", items |-> items]

IsDict(v) == v.k = "dict"

IsList(v) == v.k = "list"

EmptyDict == Dict([key \in {} |-> None])

\* record.get(key) and record.get(key, default) on a JSON object
DictGet(d, key) == Get(d.f, key)

DictGetOr(d, key, default) == GetOr(d.f, key, default)

\* isinstance(v, list) and v
NonEmptyList(v) == IsList(v) /\ v.items # <<>>

\* mutant: a location that holds a list is used, empty or not
ExtractStatsListAnyList(record) ==
    IF ~IsDict(record) THEN <<>>
    ELSE IF IsList(DictGet(record, "statistics"))
    THEN DictGet(record, "statistics").items
    ELSE IF IsList(DictGet(record, "athleteStats"))
    THEN DictGet(record, "athleteStats").items
    ELSE LET wrapped == DictGetOr(record, "lineup", EmptyDict)
         IN  IF ~IsDict(wrapped) THEN <<>>
             ELSE IF IsList(DictGet(wrapped, "statistics"))
             THEN DictGet(wrapped, "statistics").items
             ELSE IF IsList(DictGet(wrapped, "athleteStats"))
             THEN DictGet(wrapped, "athleteStats").items
             ELSE <<>>

_extract_stats_list(record) ==
    IF ~IsDict(record) THEN <<>>
    ELSE IF NonEmptyList(DictGet(record, "statistics"))
    THEN DictGet(record, "statistics").items
    ELSE IF NonEmptyList(DictGet(record, "athleteStats"))
    THEN DictGet(record, "athleteStats").items
    ELSE LET wrapped == DictGetOr(record, "lineup", EmptyDict)
         IN  IF ~IsDict(wrapped) THEN <<>>
             ELSE IF NonEmptyList(DictGet(wrapped, "statistics"))
             THEN DictGet(wrapped, "statistics").items
             ELSE IF NonEmptyList(DictGet(wrapped, "athleteStats"))
             THEN DictGet(wrapped, "athleteStats").items
             ELSE <<>>

\* all the JSON objects with some of the fields of keys, the field key
\* holding one of the values vals[key]
DictsWith(keys, vals) ==
    UNION {{Dict(f) : f \in {g \in [S -> UNION {vals[key] : key \in keys}] :
                                \A key \in S : g[key] \in vals[key]}} :
           S \in SUBSET keys}

\* what a location of observations may hold: nothing, a value that is not a
\* list, the empty list, or the observations of type id
LocationValues(id) ==
    {None, Other, ListV(<<>>), ListV(<<Stat(id, IntV(3))>>)}

\* the records _extract_stats_list is called with; each location holds
\* observations of an id of its own
StatsRecords ==
    {Other} \cup
    DictsWith({"statistics", "athleteStats", "lineup"},
              [key \in {"statistics", "athleteStats", "lineup"} |->
                  CASE key = "statistics" -> LocationValues(GOALS.api_type_id)
                    [] key = "athleteStats" -> LocationValues(ASSISTS.api_type_id)
                    [] OTHER ->
                         {None, Other} \cup
                         DictsWith({"statistics", "athleteStats"},
                             [k2 \in {"statistics", "athleteStats"} |->
                                 IF k2 = "statistics"
                                 THEN LocationValues(RATING.api_type_id)
                                 ELSE LocationValues(MINUTES_PLAYED.api_type_id)])])

InitStatsList ==
    /\ op = "_extract_stats_list"
    /\ pc = "start"
    /\ statistics = <<>>
    /\ metric = "goals"
    /\ ret = NoResult
    /\ metric_key = "goals"
    /\ games = <<>>
    /\ per90_value = None
    /\ baseline = None
    /\ result = NoResult
    /\ window = DEFAULT_WINDOW
    /\ z = None
    /\ raw \in StatsRecords
    /\ out = NoResult
    /\ NoService

ExtractStatsList ==
    /\ pc = "start"
    /\ op = "_extract_stats_list"
    /\ out' = ListV(_extract_stats_list(raw))
    /\ pc' = "done"
    /\ UNCHANGED <<op, statistics, metric, ret, games, metric_key, per90_value,
                   baseline, result, window, z, raw>>
    /\ UNCHANGED service

SpecStatsList == InitStatsList /\ [][ExtractStatsList]_vars

-----------------------------------------------------------------------------
(* Normalization of raw payloads (data_tools.py) *)

\* the type of an observation whose "type" is a list or an object
UnhashableTypeId == -2

L1_METRICS == SelectSeq(ALL_RAW_METRICS, LAMBDA m : m.availability = "L1")

\* known_ids: the canonical and the fallback ids of the raw metrics
KnownIds ==
    UNION {Range(candidate_type_ids(m)) : m \in Range(ALL_RAW_METRICS)}

\* bool(v)
Truthy(v) ==
    CASE v.k = "None" -> FALSE
      [] v.k = "str" -> v.s # <<>>
      [] v.k = "num" -> v.n # 0
      [] v.k = "list" -> v.items # <<>>
      [] v.k = "dict" -> DOMAIN v.f # {}
      [] OTHER -> TRUE

\* v or {}
OrEmptyDict(v) == IF Truthy(v) THEN v ELSE EmptyDict

\* an f-string, by the values it is formatted from
FString(parts) == [k |-> "fstring", parts |-> parts]

Unknown == Str(<<"U", "n", "k", "n", "o", "w", "n">>)

\* a or b or c
Or3(a, b, c) == IF Truthy(a) THEN a ELSE IF Truthy(b) THEN b ELSE c

\* mutant: extraction reads the observations before the first unknown id only
ExtractMetricsUntilUnknown(stats, defs) ==
    LET IsUnknown(i) == /\ stats[i].dict
                        /\ stats[i].type \notin KnownIds \cup {NoTypeId}
        first == IF \E i \in 1..Len(stats) : IsUnknown(i)
                 THEN CHOOSE i \in 1..Len(stats) :
                          IsUnknown(i) /\ \A j \in 1..(i - 1) : ~IsUnknown(j)
                 ELSE Len(stats) + 1
    IN  [key \in {m.key : m \in Range(defs)} |->
            _extract_metric_value_with_fallback(SubSeq(stats, 1, first - 1),
                                                KEY_TO_METRIC(key))]

\* metrics[metric_def.key] = val for each metric_def of defs
ExtractMetrics(stats, defs) ==
    [key \in {m.key : m \in Range(defs)} |->
        _extract_metric_value_with_fallback(stats, KEY_TO_METRIC(key))]

\* the loop that collects unknown_ids, in the order of the observations; it
\* ends with the list or with the exception of the membership test
RECURSIVE UnknownScan(_, _, _)
UnknownScan(stats, i, unknown_ids) ==
    IF i > Len(stats) THEN ListV(unknown_ids)
    ELSE IF ~stats[i].dict THEN UnknownScan(stats, i + 1, unknown_ids)
    ELSE IF stats[i].type = NoTypeId THEN UnknownScan(stats, i + 1, unknown_ids)
    ELSE IF stats[i].type = UnhashableTypeId THEN TypeError
    ELSE IF stats[i].type \notin KnownIds
    THEN UnknownScan(stats, i + 1, Append(unknown_ids, stats[i].type))
    ELSE UnknownScan(stats, i + 1, unknown_ids)

_extract_game_id(game) ==
    IF ~IsDict(game) THEN None
    ELSE IF DictGet(game, "game_id") # None THEN DictGet(game, "game_id")
    ELSE LET game_obj == DictGetOr(game, "game", EmptyDict)
         IN  IF IsDict(game_obj) THEN DictGet(game_obj, "id")
             ELSE DictGet(game, "id")

_extract_game_date(game) ==
    IF ~IsDict(game) THEN None
    ELSE IF Truthy(DictGet(game, "date")) THEN DictGet(game, "date")
    ELSE LET game_obj == DictGetOr(game, "game", EmptyDict)
         IN  IF IsDict(game_obj) THEN DictGet(game_obj, "startTime")
             ELSE DictGet(game, "startTime")

_extract_game_score(game) ==
    IF ~IsDict(game) THEN None
    ELSE IF Truthy(DictGet(game, "score")) THEN DictGet(game, "score")
    ELSE LET game_obj == DictGetOr(game, "game", EmptyDict)
         IN  IF ~IsDict(game_obj) THEN None
             ELSE LET home_comp == OrEmptyDict(DictGet(game_obj, "homeCompetitor"))
                      away_comp == OrEmptyDict(DictGet(game_obj, "awayCompetitor"))
                      scores == DictGet(game_obj, "scores")
                  IN  IF ~IsDict(home_comp) \/ ~IsDict(away_comp)
                      THEN AttributeError
                      ELSE IF DictGet(home_comp, "score") # None
                              /\ DictGet(away_comp, "score") # None
                      THEN FString(<<DictGet(home_comp, "score"), "-",
                                     DictGet(away_comp, "score")>>)
                      ELSE IF IsList(scores) /\ Len(scores.items) >= 2
                      THEN FString(<<scores.items[1], "-", scores.items[2]>>)
                      ELSE None

_derive_opponent(game) ==
    LET game_obj == IF IsDict(game) THEN DictGetOr(game, "game", game)
                    ELSE EmptyDict
        home0 == IF IsDict(game) THEN DictGetOr(game, "home_team", Str(<<>>))
                 ELSE Str(<<>>)
        away0 == IF IsDict(game) THEN DictGetOr(game, "away_team", Str(<<>>))
                 ELSE Str(<<>>)
        home_comp == IF IsDict(game_obj)
                     THEN OrEmptyDict(DictGet(game_obj, "homeCompetitor"))
                     ELSE EmptyDict
        away_comp == IF IsDict(game_obj)
                     THEN OrEmptyDict(DictGet(game_obj, "awayCompetitor"))
                     ELSE EmptyDict
        read_home == ~Truthy(home0) /\ IsDict(game_obj)
        read_away == ~Truthy(away0) /\ IsDict(game_obj)
        home == IF read_home THEN DictGetOr(home_comp, "name", Str(<<>>)) ELSE home0
        away == IF read_away THEN DictGetOr(away_comp, "name", Str(<<>>)) ELSE away0
        related_competitor == IF IsDict(game) THEN DictGet(game, "relatedCompetitor")
                              ELSE None
    IN  IF (read_home /\ ~IsDict(home_comp)) \/ (read_away /\ ~IsDict(away_comp))
        THEN AttributeError
        ELSE IF related_competitor # None /\ IsDict(game_obj)
                /\ (~IsDict(home_comp) \/ ~IsDict(away_comp))
        THEN AttributeError
        ELSE IF related_competitor # None /\ IsDict(game_obj)
                /\ DictGet(home_comp, "id") = related_competitor
        THEN Or3(DictGet(away_comp, "name"), away, Unknown)
        ELSE IF related_competitor # None /\ IsDict(game_obj)
                /\ DictGet(away_comp, "id") = related_competitor
        THEN Or3(DictGet(home_comp, "name"), home, Unknown)
        ELSE IF Truthy(home) /\ Truthy(away)
        THEN FString(<<home, " vs ", away>>)
        ELSE Or3(home, away, Unknown)

_extract_position(lineup) ==
    IF ~IsDict(lineup) THEN AttributeError
    ELSE IF IsDict(DictGet(lineup, "position"))
    THEN DictGet(DictGet(lineup, "position"), "name")
    ELSE DictGet(lineup, "position")

IsRaise(v) == v.k = "raise"

\* one pass of the loop of _normalize_games, and the passes after it
RECURSIVE NormalizeGamesLoop(_, _, _, _)
NormalizeGamesLoop(raw_games, i, games_out, norm_warnings) ==
    IF i > Len(raw_games)
    THEN [k |-> "normalized", games |-> games_out,
          normalization_warnings |-> norm_warnings]
    ELSE LET game == raw_games[i]
             stats == _extract_stats_list(game)
             game_id == _extract_game_id(game)
             metrics == ExtractMetrics(stats, L1_METRICS)
             scan == UnknownScan(stats, 1, <<>>)
             unknown_ids == scan.items
             opponent == _derive_opponent(game)
             score == _extract_game_score(game)
         IN  IF IsRaise(scan) THEN scan
             ELSE IF IsRaise(opponent) THEN opponent
             ELSE IF IsRaise(score) THEN score
             ELSE NormalizeGamesLoop(raw_games, i + 1,
                      Append(games_out,
                             [game_id |-> game_id,
                              date |-> _extract_game_date(game),
                              opponent |-> opponent,
                              score |-> score,
                              metrics |-> metrics,
                              unknown_type_ids |-> unknown_ids]),
                      IF unknown_ids # <<>>
                      THEN Append(norm_warnings,
                               Warning("NORMALIZATION_GAP",
                                       [game_id |-> game_id,
                                        unknown_type_ids |-> unknown_ids]))
                      ELSE norm_warnings)

\* raw.get("games", []) is iterated: a value that is no list is not iterable
_normalize_games(payload) ==
    IF ~IsDict(payload) THEN AttributeError
    ELSE LET raw_games == DictGetOr(payload, "games", ListV(<<>>))
         IN  IF ~IsList(raw_games) THEN TypeError
             ELSE NormalizeGamesLoop(raw_games.items, 1, <<>>, <<>>)

_normalize_lineup(payload) ==
    IF ~IsDict(payload) THEN AttributeError
    ELSE LET lineup == DictGetOr(payload, "lineup", payload)
             stats == _extract_stats_list(lineup)
             metrics == ExtractMetrics(stats, ALL_RAW_METRICS)
             scan == UnknownScan(stats, 1, <<>>)
             unknown_ids == scan.items
         IN  IF IsRaise(scan) THEN scan
             ELSE IF ~IsDict(lineup) THEN AttributeError
             ELSE [k |-> "normalized",
                   game_id |-> _extract_game_id(lineup),
                   athlete_id |->
                       IF Truthy(DictGet(lineup, "athlete_id"))
                       THEN DictGet(lineup, "athlete_id")
                       ELSE DictGet(lineup, "athleteId"),
                   position |-> _extract_position(lineup),
                   metrics |-> metrics,
                   unknown_type_ids |-> unknown_ids,
                   normalization_warnings |->
                       [j \in 1..Len(unknown_ids) |->
                           Warning("NORMALIZATION_GAP",
                                   [unknown_type_id |-> unknown_ids[j]])]]

-----------------------------------------------------------------------------
(* Inputs of normalization *)

\* observations: goals, assists under its fallback id, xG, two unknown ids,
\* one without a type, and an entry that is no mapping
RawStats ==
    {Stat(GOALS.api_type_id, IntV(3)),
     Stat(LIVE_TYPE_ID_FALLBACKS("assists")[1], IntV(1)),
     Stat(EXPECTED_GOALS.api_type_id, Num(135, 100, 0)),
     Stat(UnknownTypeId, IntV(7)),
     Stat(UnknownTypeId + 1, None),
     Stat(NoTypeId, IntV(5)),
     NonDict}

GameRecord(id, stats) == Dict([game_id |-> IntV(id), statistics |-> ListV(stats)])

\* the second game of a payload of two
SecondGames ==
    {GameRecord(2, stats) :
     stats \in {<<>>, <<Stat(GOALS.api_type_id, IntV(3))>>,
                <<Stat(UnknownTypeId + 1, None)>>,
                <<Stat(UnknownTypeId, IntV(7)), Stat(GOALS.api_type_id, IntV(3)),
                  Stat(UnknownTypeId + 1, None)>>}}

GamePayloads ==
    LET first == {GameRecord(1, stats) : stats \in SeqsUpTo(RawStats, MaxStats)}
    IN  {Dict([games |-> ListV(gs)]) :
         gs \in {<<>>} \cup {<<g>> : g \in first}
                \cup {<<g, h>> : g \in first, h \in SecondGames}}

\* a lineup record, flat or wrapped in "lineup"
LineupPayloads ==
    LET flat == {Dict([athlete_id |-> IntV(9), statistics |-> ListV(stats)]) :
                 stats \in SeqsUpTo(RawStats, MaxStats)}
    IN  flat \cup {Dict([lineup |-> r]) : r \in flat}

Competitor(name, id) ==
    Dict([name |-> Str(<<name>>), id |-> IntV(id), score |-> IntV(id)])

\* game entries of unexpected shapes: no mapping, a "game" or a competitor
\* that is no mapping, statistics that are no list or hold unexpected entries
MalformedGames ==
    {None, Other,
     Dict([statistics |-> Other]),
     Dict([statistics |-> ListV(<<NonDict, Stat(GOALS.api_type_id, Other)>>)]),
     Dict([statistics |-> ListV(<<Stat(UnhashableTypeId, IntV(1))>>)])} \cup
    DictsWith({"game", "relatedCompetitor", "home_team"},
        [key \in {"game", "relatedCompetitor", "home_team"} |->
            CASE key = "relatedCompetitor" -> {IntV(1)}
              [] key = "home_team" -> {Str(<<"H">>)}
              [] OTHER ->
                   {Other} \cup
                   DictsWith({"homeCompetitor", "awayCompetitor"},
                       [k2 \in {"homeCompetitor", "awayCompetitor"} |->
                           IF k2 = "homeCompetitor"
                           THEN {None, Other, Competitor("A", 1)}
                           ELSE {None, Other, Competitor("B", 2)}])])

MalformedGamePayloads ==
    {Other, EmptyDict, Dict([games |-> None]), Dict([games |-> Other])} \cup
    {Dict([games |-> ListV(<<g>>)]) : g \in MalformedGames}

MalformedLineupPayloads ==
    {Other, EmptyDict, Dict([lineup |-> None]), Dict([lineup |-> Other]),
     Dict([statistics |-> ListV(<<Stat(UnhashableTypeId, IntV(1))>>)]),
     Dict([athleteId |-> IntV(9), position |-> Dict([name |-> Str(<<"F">>)]),
           game |-> Dict([id |-> IntV(1)]),
           athleteStats |-> ListV(<<Stat(GOALS.api_type_id, Str(<<"1">>))>>)])}

NormalizeOps == {"_normalize_games", "_normalize_lineup"}

InitNormalize ==
    /\ op \in NormalizeOps
    /\ pc = "start"
    /\ statistics = <<>>
    /\ metric = "goals"
    /\ ret = NoResult
    /\ metric_key = "goals"
    /\ games = <<>>
    /\ per90_value = None
    /\ baseline = None
    /\ result = NoResult
    /\ window = DEFAULT_WINDOW
    /\ z = None
    /\ raw \in IF op = "_normalize_games"
               THEN GamePayloads \cup MalformedGamePayloads
               ELSE LineupPayloads \cup MalformedLineupPayloads
    /\ out = NoResult
    /\ NoService

NormalizeGames ==
    /\ pc = "start"
    /\ op = "_normalize_games"
    /\ out' = _normalize_games(raw)
    /\ pc' = "done"
    /\ UNCHANGED <<op, statistics, metric, ret, games, metric_key, per90_value,
                   baseline, result, window, z, raw>>
    /\ UNCHANGED service

NormalizeLineup ==
    /\ pc = "start"
    /\ op = "_normalize_lineup"
    /\ out' = _normalize_lineup(raw)
    /\ pc' = "done"
    /\ UNCHANGED <<op, statistics, metric, ret, games, metric_key, per90_value,
                   baseline, result, window, z, raw>>
    /\ UNCHANGED service

NextNormalize == NormalizeGames \/ NormalizeLineup

SpecNormalize == InitNormalize /\ [][NextNormalize]_vars

-----------------------------------------------------------------------------
(* Normalization and aggregation of upstream data that may be malformed *)

InitUpstream == InitNormalize \/ InitNullable

NextUpstream == NextNormalize \/ NextNullable

SpecUpstream == InitUpstream /\ [][NextUpstream]_vars

-----------------------------------------------------------------------------
(* TTL cache (data_tools.py 69-117) *)

\* no call of a pure function is in progress
NoCall ==
    /\ op = "none"
    /\ pc = "idle"
    /\ statistics = <<>>
    /\ metric = "goals"
    /\ ret = NoResult
    /\ games = <<>>
    /\ metric_key = "goals"
    /\ per90_value = None
    /\ baseline = None
    /\ result = NoResult
    /\ window = DEFAULT_WINDOW
    /\ z = None
    /\ raw = None
    /\ out = NoResult

\* the default of the environment variable CACHE_TTL_S
CACHE_TTL_S == 1800

CacheEntry(data, created_at, ttl_s) ==
    [data |-> data, created_at |-> created_at, ttl_s |-> ttl_s]

\* mutant: an entry expires only after twice its ttl_s
IsExpiredLate(entry) == now - entry.created_at > 2 * entry.ttl_s

\* CacheEntry.is_expired
is_expired(entry) == now - entry.created_at > entry.ttl_s

Max(a, b) == IF a > b THEN a ELSE b

\* CacheEntry.ttl_remaining_s
ttl_remaining_s(entry) == Max(0, entry.ttl_s - (now - entry.created_at))

\* mutant: get never finds an entry
TTLCacheGetNothing(store, key) == None

\* what TTLCache.get returns: the entry of key when there is one that has
\* not expired
TTLCacheGet(store, key) ==
    IF key \notin DOMAIN store THEN None
    ELSE IF is_expired(store[key]) THEN None
    ELSE store[key]

\* the _store TTLCache.get leaves: an expired entry of key is deleted
TTLCacheAfterGet(store, key) ==
    IF key \in DOMAIN store /\ is_expired(store[key])
    THEN [other \in DOMAIN store \ {key} |-> store[other]]
    ELSE store

\* the _store TTLCache.set leaves; ttl_s is a number of seconds or None
TTLCacheSet(store, key, data, ttl_s) ==
    [other \in DOMAIN store \cup {key} |->
        IF other = key
        THEN CacheEntry(data, now,
                        IF Truthy(ttl_s) THEN ttl_s.n ELSE CACHE_TTL_S)
        ELSE store[other]]

\* the clock advances a default TTL at a time: an entry is seen new, at the
\* very end of its life and after it
ClockStep == CACHE_TTL_S

Horizon == 2 * CACHE_TTL_S

Tick ==
    /\ now < Horizon
    /\ now' = now + ClockStep
    /\ UNCHANGED <<_cache, got, log, _request_context, req>>
    /\ UNCHANGED call

-----------------------------------------------------------------------------
(* The data tools (data_tools.py 120-518) *)

\* a str that is known by its text only
Text(t) == [k |-> "text", s |-> t]

ToolResult(data, cache_hit, ttl_remaining, warnings, error) ==
    [k |-> "ToolResult", data |-> data, cache_hit |-> cache_hit,
     ttl_remaining_s |-> ttl_remaining, warnings |-> warnings, error |-> error]

\* the characters of the literal parts of the cache keys
Chars(text) ==
    CASE text = "live" -> <<"l", "i", "v", "e">>
      [] text = "replay" -> <<"r", "e", "p", "l", "a", "y">>
      [] text = ":search_entity:" ->
             <<":", "s", "e", "a", "r", "c", "h", "_", "e", "n", "t", "i", "t",
               "y", ":">>
      [] text = ":athlete_games:" ->
             <<":", "a", "t", "h", "l", "e", "t", "e", "_", "g", "a", "m", "e",
               "s", ":">>
      [] text = ":last" -> <<":", "l", "a", "s", "t">>
      [] text = ":lineup:" -> <<":", "l", "i", "n", "e", "u", "p", ":">>
      [] text = ":" -> <<":">>

UpperCase ==
    <<"A", "B", "C", "D", "E", "F", "G", "H", "I", "J", "K", "L", "M", "N",
      "O", "P", "Q", "R", "S", "T", "U", "V", "W", "X", "Y", "Z">>

LowerCase ==
    <<"a", "b", "c", "d", "e", "f", "g", "h", "i", "j", "k", "l", "m", "n",
      "o", "p", "q", "r", "s", "t", "u", "v", "w", "x", "y", "z">>

\* str.lower() of ASCII text
Lower(s) ==
    [i \in 1..Len(s) |->
        IF \E j \in 1..Len(UpperCase) : UpperCase[j] = s[i]
        THEN LowerCase[CHOOSE j \in 1..Len(UpperCase) : UpperCase[j] = s[i]]
        ELSE s[i]]

\* str(n) of a natural number
RECURSIVE IntChars(_)
IntChars(n) ==
    LET digit == <<"0", "1", "2", "3", "4", "5", "6", "7", "8", "9">>[(n % 10) + 1]
    IN  IF n < 10 THEN <<digit>> ELSE Append(IntChars(n \div 10), digit)

\* mutant: the key of a search leaves the data mode out
SearchKeyWithoutMode(data_mode, query) ==
    Chars(":search_entity:") \o Strip(Lower(query))

\* f"{data_mode}:search_entity:{query.lower().strip()}"
SearchKey(data_mode, query) ==
    Chars(data_mode) \o Chars(":search_entity:") \o Strip(Lower(query))

\* f"{data_mode}:athlete_games:{athlete_id}:last{last_n}"
GamesKey(data_mode, athlete_id, last_n) ==
    Chars(data_mode) \o Chars(":athlete_games:") \o IntChars(athlete_id)
        \o Chars(":last") \o IntChars(last_n)

\* f"{data_mode}:lineup:{athlete_id}:{game_id}"
LineupKey(data_mode, athlete_id, game_id) ==
    Chars(data_mode) \o Chars(":lineup:") \o IntChars(athlete_id)
        \o Chars(":") \o IntChars(game_id)

\* _normalize_query_key and the normalized text of
\* _search_fixture_candidates, for a query of one word of letters with
\* spaces around it: the word in lower case
_normalize_query_key(query) == Strip(Lower(query))

Haaland == <<"h", "a", "a", "l", "a", "n", "d">>

Kane == <<"k", "a", "n", "e">>

\* a search payload of one player
SearchPayload(id, name, team) ==
    Dict([results |->
             ListV(<<Dict([type |-> Text("player"),
                           entity |-> Dict([id |-> IntV(id),
                                            name |-> Text(name),
                                            team |-> Dict([name |-> Text(team)])]),
                           score |-> IntV(100)])>>)])

\* LIVE_PLAYER_ALIASES, the entries whose key is one word
LIVE_PLAYER_ALIASES ==
    [key \in {Haaland, <<"b", "e", "l", "l", "i", "n", "g", "h", "a", "m">>,
              <<"m", "b", "a", "p", "p", "e">>} |->
        CASE key = Haaland ->
                 [athlete_id |-> 65760, name |-> "Erling Haaland",
                  team |-> "Manchester City"]
          [] key = <<"m", "b", "a", "p", "p", "e">> ->
                 [athlete_id |-> 39820, name |-> "Kylian Mbappe",
                  team |-> "Real Madrid"]
          [] OTHER ->
                 [athlete_id |-> 73000, name |-> "Jude Bellingham",
                  team |-> "Real Madrid"]]

\* _lookup_alias for a query of one word: the exact match, the phrase
\* containment and the surname fallback all look the word up
_lookup_alias(query) ==
    IF _normalize_query_key(query) \in DOMAIN LIVE_PLAYER_ALIASES
    THEN LIVE_PLAYER_ALIASES[_normalize_query_key(query)]
    ELSE [athlete_id |-> NoTypeId]

_alias_to_search_payload(alias) ==
    SearchPayload(alias.athlete_id, alias.name, alias.team)

\* the fixture directory: a search fixture for haaland, a games fixture for
\* athlete 65760 (last 5) and a lineup fixture for its game 11
SearchFixtures ==
    [word \in {Haaland} |-> SearchPayload(65760, "Erling Haaland", "Manchester City")]

GamesFixtures ==
    [id \in {<<65760, 5>>} |->
        Dict([games |-> ListV(<<GameRecord(11, <<Stat(GOALS.api_type_id, IntV(2)),
                                                 Stat(UnknownTypeId, IntV(7))>>)>>)])]

LineupFixtures ==
    [id \in {<<65760, 11>>} |->
        Dict([lineup |-> Dict([athlete_id |-> IntV(65760),
                               statistics |->
                                   ListV(<<Stat(GOALS.api_type_id, IntV(2))>>)])])]

\* _load_fixture: the content of the file, None when there is none
_load_fixture(fixtures, name) ==
    IF name \in DOMAIN fixtures THEN fixtures[name] ELSE None

\* _make_replay_warning
_make_replay_warning(fixture, source) ==
    Warning("DATA_MODE_REPLAY",
            IF fixture = None THEN [source |-> source]
            ELSE [source |-> source, fixture |-> fixture])

\* what the upstream API answers to a request: a JSON body, an HTTP error
\* status, or no answer
Json(body) == [k |-> "json", body |-> body]

HTTPStatusError(status_code) == [k |-> "HTTPStatusError", status_code |-> status_code]

ConnectError == [k |-> "ConnectError"]

\* str(e) of an exception of the HTTP client or of normalization
ExceptionText(e) ==
    CASE e.k = "HTTPStatusError" ->
             Text("Client error for url 'https://v1.football.sportsapipro.com/...'")
      [] e.k = "ConnectError" -> Text("All connection attempts failed")
      [] OTHER -> Text(e.exc)

\* what a tool call leaves: its ToolResult (or the exception it raised), the
\* _store of the cache and the requests it made to the upstream API
Outcome(res, store, api) == [res |-> res, store |-> store, api |-> api]

\* mutant: a cache hit in replay mode carries no DATA_MODE_REPLAY warning
CacheHitWithoutReplayWarning(cached, data_mode, store) ==
    Outcome(ToolResult(cached.data, TRUE, IntV(ttl_remaining_s(cached)),
                <<Warning("USED_CACHED_DATA",
                          [ttl_remaining_s |-> ttl_remaining_s(cached)])>>,
                None),
            store, <<>>)

\* the branch of a tool taken on a cache hit
CacheHit(cached, data_mode, store) ==
    Outcome(ToolResult(cached.data, TRUE, IntV(ttl_remaining_s(cached)),
                (IF data_mode = "replay"
                 THEN <<_make_replay_warning(None, "cache")>> ELSE <<>>)
                \o <<Warning("USED_CACHED_DATA",
                             [ttl_remaining_s |-> ttl_remaining_s(cached)])>>,
                None),
            store, <<>>)

\* the branch of a tool taken when live fetch is disabled
CacheOnly(store) ==
    Outcome(ToolResult(None, FALSE, None,
                <<Warning("CACHE_ONLY_MODE", <<>>)>>,
                Text("No cached data available and live fetch is disabled.")),
            store, <<>>)

search_entity(cache, query, data_mode, allow_live_fetch, upstream) ==
    LET cache_key == SearchKey(data_mode, query)
        cached == TTLCacheGet(cache, cache_key)
        store == TTLCacheAfterGet(cache, cache_key)
        word == _normalize_query_key(query)
        fixture_data == _load_fixture(SearchFixtures, word)
        request == [endpoint |-> "/search", params |-> Str(query)]
        alias == _lookup_alias(query)
    IN  IF cached # None THEN CacheHit(cached, data_mode, store)
        ELSE IF data_mode = "replay"
        THEN IF word = <<>> \/ fixture_data = None
             THEN Outcome(ToolResult(None, FALSE, None,
                              <<Warning("DATA_MODE_REPLAY",
                                        [attempted_fixtures |->
                                             IF word = <<>> THEN <<>> ELSE <<word>>,
                                         source |-> "fixture"])>>,
                              Text("Replay fixture not found")),
                          store, <<>>)
             ELSE Outcome(ToolResult(fixture_data, FALSE, None,
                              <<_make_replay_warning(Str(word), "fixture")>>, None),
                          TTLCacheSet(store, cache_key, fixture_data, None), <<>>)
        ELSE IF ~allow_live_fetch THEN CacheOnly(store)
        ELSE IF upstream.k = "json"
        THEN Outcome(ToolResult(upstream.body, FALSE, None, <<>>, None),
                     TTLCacheSet(store, cache_key, upstream.body, None),
                     <<request>>)
        ELSE IF upstream.k = "HTTPStatusError"
                /\ upstream.status_code \in {403, 404, 429}
        THEN IF alias.athlete_id # NoTypeId
             THEN Outcome(ToolResult(_alias_to_search_payload(alias), FALSE, None,
                              <<Warning("SEARCH_UNAVAILABLE_USING_ALIAS",
                                        [query |-> Str(query),
                                         athlete_id |-> alias.athlete_id,
                                         status_code |-> upstream.status_code])>>,
                              None),
                          TTLCacheSet(store, cache_key,
                                      _alias_to_search_payload(alias), None),
                          <<request>>)
             ELSE Outcome(ToolResult(None, FALSE, None,
                              <<Warning("SEARCH_ENDPOINT_UNAVAILABLE",
                                        [query |-> Str(query),
                                         status_code |-> upstream.status_code])>>,
                              Text("Live search endpoint unavailable and no alias mapping found")),
                          store, <<request>>)
        ELSE Outcome(ToolResult(None, FALSE, None, <<>>, ExceptionText(upstream)),
                     store, <<request>>)

\* get_athlete_games and get_game_lineup differ by their key, their fixture,
\* their endpoint and their normalization only
FetchNormalized(cache, cache_key, data_mode, allow_live_fetch, upstream,
                fixture_data, fixture_name, request, Normalize(_)) ==
    LET cached == TTLCacheGet(cache, cache_key)
        store == TTLCacheAfterGet(cache, cache_key)
    IN  IF cached # None THEN CacheHit(cached, data_mode, store)
        ELSE IF data_mode = "replay"
        THEN IF fixture_data = None
             THEN Outcome(ToolResult(None, FALSE, None,
                              <<Warning("DATA_MODE_REPLAY",
                                        [fixture |-> fixture_name,
                                         source |-> "fixture"])>>,
                              Text("Replay fixture not found")),
                          store, <<>>)
             ELSE IF IsRaise(Normalize(fixture_data))
             THEN Outcome(Normalize(fixture_data), store, <<>>)
             ELSE Outcome(ToolResult(Normalize(fixture_data), FALSE, None,
                              <<_make_replay_warning(fixture_name, "fixture")>>,
                              None),
                          TTLCacheSet(store, cache_key, Normalize(fixture_data), None),
                          <<>>)
        ELSE IF ~allow_live_fetch THEN CacheOnly(store)
        ELSE IF upstream.k # "json"
        THEN Outcome(ToolResult(None, FALSE, None, <<>>, ExceptionText(upstream)),
                     store, <<request>>)
        ELSE IF IsRaise(Normalize(upstream.body))
        THEN Outcome(ToolResult(None, FALSE, None, <<>>,
                                ExceptionText(Normalize(upstream.body))),
                     store, <<request>>)
        ELSE Outcome(ToolResult(Normalize(upstream.body), FALSE, None, <<>>, None),
                     TTLCacheSet(store, cache_key, Normalize(upstream.body), None),
                     <<request>>)

get_athlete_games(cache, athlete_id, last_n, data_mode, allow_live_fetch, upstream) ==
    FetchNormalized(cache, GamesKey(data_mode, athlete_id, last_n), data_mode,
        allow_live_fetch, upstream,
        _load_fixture(GamesFixtures, <<athlete_id, last_n>>),
        FString(<<"athletes_games__", athlete_id, "__last", last_n, ".json">>),
        [endpoint |-> "/athletes/games", params |-> <<athlete_id, last_n>>],
        _normalize_games)

get_game_lineup(cache, athlete_id, game_id, data_mode, allow_live_fetch, upstream) ==
    FetchNormalized(cache, LineupKey(data_mode, athlete_id, game_id), data_mode,
        allow_live_fetch, upstream,
        _load_fixture(LineupFixtures, <<athlete_id, game_id>>),
        FString(<<"athlete_lineup__", athlete_id, "__", game_id, ".json">>),
        [endpoint |-> "/athletes/games/lineups", params |-> <<athlete_id, game_id>>],
        _normalize_lineup)

-----------------------------------------------------------------------------
(* Calls of the data tools *)

\* the number of tool calls of a run
MaxCalls == 2

DataModes == {"live", "replay"}

\* search queries: one with a fixture and an alias, one with neither
Queries == {<<"H", "a", "a", "l", "a", "n", "d", " ">>, Kane}

\* what the upstream API may answer to a search
SearchUpstream ==
    {Json(SearchPayload(65760, "Erling Braut Haaland", "Manchester City")),
     HTTPStatusError(404), ConnectError}

\* what it may answer for the games of an athlete: a payload, a payload
\* whose "games" is null, or an error
GamesUpstream ==
    {Json(Dict([games |-> ListV(<<GameRecord(12, <<Stat(GOALS.api_type_id, IntV(1))>>)>>)])),
     Json(Dict([games |-> None])),
     HTTPStatusError(500)}

LineupUpstream ==
    {Json(Dict([lineup |-> Dict([athlete_id |-> IntV(65760),
                                 statistics |->
                                     ListV(<<Stat(GOALS.api_type_id, IntV(1))>>)])])),
     Json(Dict([lineup |-> None]))}

\* an upstream answer is chosen only for a call that reaches the API
Answers(cache, key, data_mode, allow_live_fetch, upstream) ==
    IF TTLCacheGet(cache, key) = None /\ data_mode # "replay" /\ allow_live_fetch
    THEN upstream
    ELSE {CHOOSE u \in upstream : TRUE}

\* the record of a call in the log
Called(tool, args, data_mode, allow_live_fetch, o) ==
    [op |-> tool, args |-> args, data_mode |-> data_mode,
     allow_live_fetch |-> allow_live_fetch, at |-> now,
     res |-> o.res, api |-> o.api]

InitTools == NoCall /\ NoService

SearchEntity ==
    /\ Len(log) < MaxCalls
    /\ \E query \in Queries, data_mode \in DataModes, allow_live_fetch \in BOOLEAN :
         \E upstream \in Answers(_cache, SearchKey(data_mode, query), data_mode,
                                 allow_live_fetch, SearchUpstream) :
            LET o == search_entity(_cache, query, data_mode, allow_live_fetch, upstream)
            IN  /\ _cache' = o.store
                /\ log' = Append(log, Called("search_entity", Str(query), data_mode,
                                             allow_live_fetch, o))
    /\ UNCHANGED <<now, got, _request_context, req>>
    /\ UNCHANGED call

GetAthleteGames ==
    /\ Len(log) < MaxCalls
    /\ \E athlete_id \in {65760}, last_n \in {5}, data_mode \in DataModes,
          allow_live_fetch \in BOOLEAN :
         \E upstream \in Answers(_cache, GamesKey(data_mode, athlete_id, last_n),
                                 data_mode, allow_live_fetch, GamesUpstream) :
            LET o == get_athlete_games(_cache, athlete_id, last_n, data_mode,
                                       allow_live_fetch, upstream)
            IN  /\ _cache' = o.store
                /\ log' = Append(log, Called("get_athlete_games",
                                             ListV(<<athlete_id, last_n>>), data_mode,
                                             allow_live_fetch, o))
    /\ UNCHANGED <<now, got, _request_context, req>>
    /\ UNCHANGED call

GetGameLineup ==
    /\ Len(log) < MaxCalls
    /\ \E athlete_id \in {65760}, game_id \in {11}, data_mode \in DataModes,
          allow_live_fetch \in BOOLEAN :
         \E upstream \in Answers(_cache, LineupKey(data_mode, athlete_id, game_id),
                                 data_mode, allow_live_fetch, LineupUpstream) :
            LET o == get_game_lineup(_cache, athlete_id, game_id, data_mode,
                                     allow_live_fetch, upstream)
            IN  /\ _cache' = o.store
                /\ log' = Append(log, Called("get_game_lineup",
                                             ListV(<<athlete_id, game_id>>), data_mode,
                                             allow_live_fetch, o))
    /\ UNCHANGED <<now, got, _request_context, req>>
    /\ UNCHANGED call

NextTools == SearchEntity \/ GetAthleteGames \/ GetGameLineup \/ Tick

SpecTools == InitTools /\ [][NextTools]_vars

-----------------------------------------------------------------------------
(* Calls of TTLCache.get and TTLCache.set, next to those of a data tool *)

\* the key of the tool's entry in live mode
CacheKeys == {GamesKey("live", 65760, 5)}

CacheData == {IntV(1)}

\* the ttl_s argument of set: left out, 0, or twice the default
TtlArguments == {None, IntV(0), IntV(2 * CACHE_TTL_S)}

InitCache == NoCall /\ NoService

\* get(key): entry is its local variable, returned what it returns
CacheGet ==
    \E key \in CacheKeys :
        /\ got' = [key |-> key, at |-> now, entry |-> Get(_cache, key),
                   returned |-> TTLCacheGet(_cache, key)]
        /\ _cache' = TTLCacheAfterGet(_cache, key)
        /\ UNCHANGED <<now, log, _request_context, req>>
        /\ UNCHANGED call

CacheSet ==
    \E key \in CacheKeys, data \in CacheData, ttl_s \in TtlArguments :
        /\ _cache' = TTLCacheSet(_cache, key, data, ttl_s)
        /\ UNCHANGED <<now, got, log, _request_context, req>>
        /\ UNCHANGED call

NextCache == CacheGet \/ CacheSet \/ Tick \/ GetAthleteGames

SpecCache == InitCache /\ [][NextCache]_vars

-----------------------------------------------------------------------------
(* The agent's tools (football_agent.py 30-305, quant_tools.py 434-509) *)

BoolV(b) == [k |-> "bool", b |-> b]

\* ContractError and its subclasses, by their code and message
ContractError(code, message) ==
    [k |-> "raise", exc |-> "ContractError", code |-> code, message |-> message]

PlayerNotFoundError(query) ==
    ContractError("PLAYER_NOT_FOUND",
                  FString(<<"No player found matching '", Str(query), "'.">>))

AmbiguousEntityError(query) ==
    ContractError("AMBIGUOUS_ENTITY",
                  FString(<<"Multiple matches found for '", Str(query), "'.">>))

InsufficientContextError ==
    ContractError("INSUFFICIENT_CONTEXT",
        Text("Please specify who you are asking about (e.g., 'How is Saka doing?')."))

InsufficientDataError(player_id) ==
    ContractError("INSUFFICIENT_DATA",
                  FString(<<"No recent games found for player ", player_id, ".">>))

\* set_request_context: the value it gives the global _request_context
set_request_context(ctx, data_mode, allow_live_fetch) ==
    [data_mode |-> data_mode, allow_live_fetch |-> allow_live_fetch,
     warnings |-> <<>>, artifacts |-> <<>>, sources |-> <<>>,
     last_cache_hit |-> None]

\* _append_warnings: the context it leaves
_append_warnings(ctx, warnings) ==
    IF warnings = <<>> THEN ctx
    ELSE [ctx EXCEPT !.warnings = @ \o warnings]

\* one row of a search payload as _normalize_search_results flattens it
SearchRow(row) ==
    IF "entity" \in DOMAIN row.f
    THEN LET entity == DictGet(row, "entity")
             team == IF IsDict(DictGet(entity, "team"))
                     THEN DictGet(entity, "team") ELSE EmptyDict
         IN  Dict([id |-> DictGet(entity, "id"), name |-> DictGet(entity, "name"),
                   team |-> DictGet(team, "name"), score |-> DictGet(row, "score"),
                   position |-> DictGet(entity, "position")])
    ELSE Dict([id |-> DictGet(row, "id"), name |-> DictGet(row, "name"),
               team |-> DictGet(row, "team"), score |-> DictGet(row, "score"),
               position |-> DictGet(row, "position")])

\* _normalize_search_results, for a payload whose "results" is a list
_normalize_search_results(payload) ==
    LET rows == IF IsDict(payload) THEN DictGetOr(payload, "results", ListV(<<>>)).items
                ELSE IF IsList(payload) THEN payload.items
                ELSE <<>>
        dicts == SelectSeq(rows, IsDict)
        flat == [i \in 1..Len(dicts) |-> SearchRow(dicts[i])]
        Kept(r) == DictGet(r, "id") # None /\ Truthy(DictGet(r, "name"))
    IN  SelectSeq(flat, Kept)

\* what a tool leaves: the global context, the _store of the cache, the
\* requests made to the upstream API, and its output or the exception raised
Ran(ctx, store, api, output) ==
    [ctx |-> ctx, store |-> store, api |-> api, output |-> output]

\* the context after a data tool has returned tool_result
AfterDataTool(ctx, tool_result) ==
    [_append_warnings(ctx, tool_result.warnings)
        EXCEPT !.last_cache_hit = BoolV(tool_result.cache_hit)]

\* search_player after search_entity has left o; the search payloads of the
\* model hold one player, so the choice among several matches (162-170) is
\* reduced to its error
SearchPlayerOutput(query, tool_result, matches) ==
    IF Truthy(tool_result.error)
    THEN ContractError("UPSTREAM_DOWN", tool_result.error)
    ELSE IF matches = <<>> THEN PlayerNotFoundError(query)
    ELSE IF Len(matches) > 1 THEN AmbiguousEntityError(query)
    ELSE matches[1]

SearchPlayerAfter(ctx, query, o) ==
    Ran(AfterDataTool(ctx, o.res), o.store, o.api,
        SearchPlayerOutput(query, o.res, _normalize_search_results(o.res.data)))

search_player(ctx, store, query, upstream) ==
    SearchPlayerAfter(ctx, query,
        search_entity(store, query, ctx.data_mode, ctx.allow_live_fetch, upstream))

\* get_recent_games after get_athlete_games has left o
GetRecentGamesAfter(ctx, athlete_id, o) ==
    IF IsRaise(o.res) THEN Ran(ctx, o.store, o.api, o.res)
    ELSE IF Truthy(o.res.error)
    THEN Ran(AfterDataTool(ctx, o.res), o.store, o.api,
             ContractError("UPSTREAM_DOWN", o.res.error))
    ELSE IF o.res.data.games = <<>>
    THEN Ran(AfterDataTool(ctx, o.res), o.store, o.api,
             InsufficientDataError(athlete_id))
    ELSE Ran(_append_warnings(
                 IF Len(o.res.data.games) < 3
                 THEN _append_warnings(AfterDataTool(ctx, o.res),
                          <<Warning("INSUFFICIENT_GAMES",
                                    [games_found |-> Len(o.res.data.games),
                                     threshold |-> 3])>>)
                 ELSE AfterDataTool(ctx, o.res),
                 o.res.data.normalization_warnings),
             o.store, o.api, ListV(o.res.data.games))

get_recent_games(ctx, store, athlete_id, last_n, upstream) ==
    GetRecentGamesAfter(ctx, athlete_id,
        get_athlete_games(store, athlete_id, last_n, ctx.data_mode,
                          ctx.allow_live_fetch, upstream))

\* get_detailed_stats after get_game_lineup has left o
GetDetailedStatsAfter(ctx, o) ==
    IF IsRaise(o.res) THEN Ran(ctx, o.store, o.api, o.res)
    ELSE IF Truthy(o.res.error)
    THEN Ran(AfterDataTool(ctx, o.res), o.store, o.api,
             ContractError("UPSTREAM_DOWN", o.res.error))
    ELSE Ran(_append_warnings(AfterDataTool(ctx, o.res),
                              o.res.data.normalization_warnings),
             o.store, o.api, o.res.data)

get_detailed_stats(ctx, store, athlete_id, game_id, upstream) ==
    GetDetailedStatsAfter(ctx,
        get_game_lineup(store, athlete_id, game_id, ctx.data_mode,
                        ctx.allow_live_fetch, upstream))

\* a quant tool after its computation has returned res: the warnings are
\* appended, and fallback is returned when res has an error or no value
QuantToolAfter(ctx, store, res, fallback) ==
    IF IsRaise(res) THEN Ran(ctx, store, <<>>, res)
    ELSE Ran(_append_warnings(ctx, res.warnings), store, <<>>,
             IF res.error # None \/ res.value = None THEN fallback ELSE res.value)

calculate_per90(ctx, store, gs, key) ==
    QuantToolAfter(ctx, store, compute_per90(gs, key), IntV(-1))

calculate_derived(ctx, store, gs, key) ==
    QuantToolAfter(ctx, store, compute_derived(gs, key), IntV(-1))

\* compare_to_league; entry is the baselines entry of its league, season,
\* position and metric
compare_to_league(ctx, store, value, key, entry) ==
    IF Less(value, IntV(0)) THEN Ran(ctx, store, <<>>, IntV(0))
    ELSE QuantToolAfter(ctx, store, compute_zscore(value, key, entry), IntV(0))

\* generate_plot; saved tells whether the file could be written
generate_plot(form_data, key, trace_id, saved) ==
    IF ~saved
    THEN QuantResult(None, <<>>,
             <<Warning("ARTIFACT_WRITE_FAILED", [metric |-> key])>>,
             ErrorText("OSError"))
    ELSE IF \A i \in 1..Len(form_data) : form_data[i] = None
    THEN QuantResult(None, <<>>,
             <<Warning("METRIC_UNAVAILABLE", [metric |-> key])>>, None)
    ELSE QuantResult(FString(<<"/static/plots/", trace_id, "_form-", key, ".png">>),
                     <<>>, <<>>, None)

\* show_form_chart after compute_form and generate_plot
ShowFormChartAfter(ctx, store, key, form_res, plot_res) ==
    IF form_res.raw_values = <<>>
    THEN Ran(_append_warnings(ctx, form_res.warnings), store, <<>>,
             Text("No data for plot."))
    ELSE IF plot_res.error # None \/ ~Truthy(plot_res.value)
    THEN Ran(_append_warnings(ctx, form_res.warnings \o plot_res.warnings),
             store, <<>>, Text("Plot generation failed."))
    ELSE Ran([_append_warnings(ctx, form_res.warnings \o plot_res.warnings)
                 EXCEPT !.artifacts =
                     Append(@, [type |-> "plot", url |-> plot_res.value,
                                label |-> FString(<<key, " Form">>)])],
             store, <<>>, plot_res.value)

ShowFormChartPlot(ctx, store, key, trace_id, saved, form_res) ==
    ShowFormChartAfter(ctx, store, key, form_res,
        generate_plot(form_res.raw_values, key, trace_id, saved))

show_form_chart(ctx, store, gs, key, trace_id, saved) ==
    ShowFormChartPlot(ctx, store, key, trace_id, saved,
                      compute_form(gs, key, DEFAULT_WINDOW))

-----------------------------------------------------------------------------
(* run_agent (football_agent.py 308-473) and /agent/query (main.py 48-304) *)

\* the default of the environment variable AGENT_MAX_TOOL_ITERATIONS
MAX_TOOL_CALL_ITERATIONS == 5

MAX_HISTORY == 10

\* a query, by what route_intent tests in it: a pronoun among its words, a
\* comparison phrase, a word of analysis; and by what the LLM makes of it:
\* asks holds the names of the tools it may request, turns the number of
\* its responses that may request tools
Query(pronoun, compare, deep, asks, turns) ==
    [pronoun |-> pronoun, compare |-> compare, deep |-> deep, asks |-> asks,
     turns |-> turns]

route_intent(query, history) ==
    IF history = <<>> /\ query.pronoun THEN "INSUFFICIENT_CONTEXT"
    ELSE IF query.compare THEN "Compare"
    ELSE IF query.deep THEN "Deep"
    ELSE "Surface"

BaseTools == {"search_player", "get_recent_games", "calculate_per90",
              "compare_to_league"}

L2Tools == {"get_detailed_stats", "calculate_derived", "show_form_chart"}

\* mutant: the tools are selected by the intent alone
SelectToolsByIntent(intent, max_depth) ==
    IF intent = "Deep" THEN BaseTools \cup L2Tools ELSE BaseTools

\* select_tools, by the names of the tools (the keys of tool_map)
select_tools(intent, max_depth) ==
    IF max_depth = "L1" THEN BaseTools
    ELSE IF intent = "Deep" THEN BaseTools \cup L2Tools
    ELSE BaseTools

\* what surrounds a tool call: the answer of the upstream API to each data
\* tool, the value the LLM passes to compare_to_league, and whether the plot
\* file can be written
Envs ==
    [search : SearchUpstream, games : GamesUpstream, lineup : LineupUpstream,
     per90_value : {IntV(-1), IntV(1)}, saved : BOOLEAN]

EnvField(name) ==
    CASE name = "search_player" -> "search"
      [] name = "get_recent_games" -> "games"
      [] name = "get_detailed_stats" -> "lineup"
      [] name = "compare_to_league" -> "per90_value"
      [] name = "show_form_chart" -> "saved"
      [] OTHER -> "none"

DefaultEnv == CHOOSE e \in Envs : TRUE

\* the surroundings that differ for the tools named only
EnvsOf(names) ==
    {e \in Envs :
        \A field \in DOMAIN e :
            (\A i \in 1..Len(names) : EnvField(names[i]) # field) =>
                e[field] = DefaultEnv[field]}

\* the games the LLM passes to the quant tools: 45 minutes played in all, and
\* a game without a shot
ShortGames ==
    <<[game_id |-> 1,
       metrics |-> [goals |-> IntV(2), minutes_played |-> IntV(45),
                    shots_total |-> IntV(0), shots_on_target |-> IntV(0)]]>>

\* tool_obj.ainvoke(tool_args), with the arguments the LLM passes to each tool
Invoke(name, ctx, store, trace_id, env) ==
    CASE name = "search_player" ->
             search_player(ctx, store, <<"H", "a", "a", "l", "a", "n", "d", " ">>,
                           env.search)
      [] name = "get_recent_games" ->
             get_recent_games(ctx, store, 65760, 5, env.games)
      [] name = "get_detailed_stats" ->
             get_detailed_stats(ctx, store, 65760, 11, env.lineup)
      [] name = "calculate_per90" -> calculate_per90(ctx, store, ShortGames, "goals")
      [] name = "calculate_derived" ->
             calculate_derived(ctx, store, ShortGames, "shot_accuracy")
      [] name = "compare_to_league" ->
             compare_to_league(ctx, store, env.per90_value, "goals", None)
      [] OTHER -> show_form_chart(ctx, store, ShortGames, "goals", trace_id,
                                  env.saved)

\* the warnings a tool has appended to the context
AppendedBy(before, after) ==
    SubSeq(after.warnings, Len(before.warnings) + 1, Len(after.warnings))

\* one pass of 'for tool_call in response.tool_calls' and the passes after
\* it. q holds the locals of the request, ctx the global context; ran records
\* for each executed tool the mode it ran in and what it produced
RECURSIVE RunToolCalls(_, _, _, _, _, _)

\* what the executed tool names[i] has left in o, seen from the context before
Run(name, ctx, o) ==
    [tool |-> name, data_mode |-> ctx.data_mode,
     allow_live_fetch |-> ctx.allow_live_fetch,
     cache_hit |-> o.ctx.last_cache_hit,
     warnings |-> AppendedBy(ctx, o.ctx),
     artifacts |-> SubSeq(o.ctx.artifacts, Len(ctx.artifacts) + 1,
                          Len(o.ctx.artifacts))]

\* run_agent 424-442, after the tool names[i] has left o
AfterTool(names, i, q, ctx, env, o) ==
    IF IsRaise(o.output)
    THEN [q |-> [q EXCEPT
               !.ran = Append(@, Run(names[i], ctx, o)),
               !.raised =
                   IF o.output.exc = "ContractError" THEN o.output
                   ELSE ContractError("UPSTREAM_DOWN",
                            FString(<<"Tool ", names[i], " failed: ",
                                      ExceptionText(o.output)>>))],
          ctx |-> o.ctx, store |-> o.store]
    ELSE RunToolCalls(names, i + 1,
             [q EXCEPT
                 !.ran = Append(@, Run(names[i], ctx, o)),
                 !.tools_invoked_log =
                     Append(@, [tool |-> names[i],
                                cache_hit |-> o.ctx.last_cache_hit]),
                 !.messages = Append(@, [tool |-> names[i],
                                         content |-> o.output])],
             [o.ctx EXCEPT !.last_cache_hit = None], o.store, env)

RunToolCalls(names, i, q, ctx, store, env) ==
    IF i > Len(names) \/ q.raised # None
    THEN [q |-> q, ctx |-> ctx, store |-> store]
    ELSE IF names[i] \notin q.tool_map
    THEN RunToolCalls(names, i + 1,
             [q EXCEPT !.messages =
                  Append(@, [tool |-> names[i],
                             content |-> Text("Error: Tool not allowed")])],
             ctx, store, env)
    ELSE AfterTool(names, i, q, ctx, env,
                   Invoke(names[i], ctx, store, q.trace_id, env))

AgentResult(answer, ctx, depth_used, tools_invoked) ==
    [k |-> "AgentResult", answer |-> answer, artifacts |-> ctx.artifacts,
     sources |-> ctx.sources, data_depth |-> depth_used,
     reasoning_mode |-> IF depth_used = "L2" THEN "SYNTHESIS" ELSE "DATA_ONLY",
     tools_invoked |-> tools_invoked, warnings |-> ctx.warnings]

\* what run_agent returns once the response holds no tool call
Answer(q, ctx) ==
    AgentResult(Text("answer"), ctx,
                IF q.intent = "Deep" /\ q.max_depth # "L1" THEN "L2" ELSE "L1",
                q.tools_invoked_log)

make_error_response(code, message, warnings) ==
    [status |-> "error", answer |-> message, artifacts |-> <<>>,
     data_depth |-> "L1", tools_invoked |-> <<>>, warnings |-> warnings,
     error |-> [code |-> code, message |-> message]]

make_success_response(agent_result, warnings) ==
    [status |-> "ok", answer |-> agent_result.answer,
     artifacts |-> agent_result.artifacts,
     data_depth |-> agent_result.data_depth,
     tools_invoked |-> agent_result.tools_invoked, warnings |-> warnings,
     error |-> None]

\* the end of agent_query (main.py 261-304): the envelope for what run_agent
\* returned or raised; q.warnings are the warnings of the handler itself
Envelope(q, outcome) ==
    IF ~IsRaise(outcome)
    THEN make_success_response(outcome, q.warnings \o outcome.warnings)
    ELSE IF outcome.exc = "ContractError"
    THEN make_error_response(outcome.code, outcome.message, q.warnings)
    ELSE make_error_response("UPSTREAM_DOWN",
             FString(<<"Internal agent error: ", ExceptionText(outcome)>>),
             q.warnings)

\* the request is over: run_agent has returned or raised outcome
Done(q, outcome) ==
    [q EXCEPT !.pc = "done", !.outcome = outcome,
              !.response = Envelope(q, outcome)]

\* history[-MAX_HISTORY:]
LastEntries(history) ==
    SubSeq(history, Len(history) - MAX_HISTORY + 1, Len(history))

\* main.py 187-239: the warnings of the handler
ProtocolWarnings(q) ==
    (IF Len(q.history) > MAX_HISTORY
     THEN <<Warning("HISTORY_TRUNCATED", [original_count |-> Len(q.history)])>>
     ELSE <<>>)
    \o (IF q.data_mode = "replay"
        THEN <<Warning("DATA_MODE_REPLAY", <<>>)>> ELSE <<>>)

\* main.py 246: the history handed to run_agent is read from the body again
AgentHistory(q) == q.history

\* mutant: the loop has no last pass
LoopAlwaysGoesOn(rounds) == TRUE

\* the loop of run_agent (407) goes on after rounds passes
LoopGoesOn(rounds) == rounds < MAX_TOOL_CALL_ITERATIONS

-----------------------------------------------------------------------------
(* Requests to /agent/query *)

ToolNames ==
    <<"search_player", "get_recent_games", "get_detailed_stats",
      "calculate_per90", "calculate_derived", "compare_to_league",
      "show_form_chart", "delete_player">>

\* what the LLM may answer in the request q: no tool call, one call of a tool
\* of asks, or, as its first response, a call of each tool of asks
Responses(q) ==
    LET Asked(name) == name \in q.query.asks
    IN  IF q.rounds >= q.query.turns THEN {<<>>}
        ELSE {<<>>} \cup {<<name>> : name \in q.query.asks}
                 \cup (IF q.rounds = 0 THEN {SelectSeq(ToolNames, Asked)} ELSE {})

AskSets ==
    {{"search_player", "get_detailed_stats"},
     {"calculate_per90", "calculate_derived"},
     {"compare_to_league", "show_form_chart"},
     {"get_recent_games", "delete_player"}}

\* a history of n messages, told apart by their content
History(n) ==
    [i \in 1..n |-> Dict([role |-> Text("user"), content |-> IntV(i)])]

\* no history, the longest that is kept whole, one entry more, and an entry
\* that is no mapping
Histories ==
    {History(0), History(MAX_HISTORY), History(MAX_HISTORY + 1), <<Text("hi")>>}

\* a request that has arrived: its body, whether OPENAI_API_KEY is set, and
\* the locals of agent_query and run_agent; llm_calls counts the calls of the
\* LLM and answered its responses, tool_calls are those of the last response
Request(trace_id, query, history, data_mode, max_depth, allow_live_fetch,
        api_key) ==
    [trace_id |-> trace_id, query |-> query, history |-> history,
     data_mode |-> data_mode, max_depth |-> max_depth,
     allow_live_fetch |-> allow_live_fetch, api_key |-> api_key,
     pc |-> "new", warnings |-> <<>>, agent_history |-> <<>>, intent |-> "",
     tool_map |-> {}, rounds |-> 0, llm_calls |-> 0, answered |-> 0,
     tool_calls |-> <<>>, tools_invoked_log |-> <<>>, messages |-> <<>>, ran |-> <<>>,
     raised |-> None, outcome |-> None, response |-> None]

\* the number of responses of the LLM that request tools, for a request with
\* a history and for each of two requests at a time
MaxTurns == 2

MaxOverlapTurns == 1

NoRequest ==
    NoCall /\ _cache = <<>> /\ now = 0 /\ got = NoResult /\ log = <<>>
        /\ _request_context = <<>>

\* one request with no history, in replay mode: every intent, every
\* max_depth
InitAgent ==
    /\ NoRequest
    /\ \E pronoun \in BOOLEAN, compare \in BOOLEAN, deep \in BOOLEAN,
          asks \in AskSets, max_depth \in {"L1", "L2", "auto"},
          data_mode \in {"replay"} :
         req = [r \in {1} |->
                   Request(r, Query(pronoun, compare, deep, asks, MAX_TOOL_CALL_ITERATIONS + 1),
                           <<>>,
                           data_mode, max_depth, TRUE, TRUE)]

\* one request: every history, every data mode, with and without live fetch
InitQuery ==
    /\ NoRequest
    /\ \E deep \in BOOLEAN, asks \in AskSets, history \in Histories,
          data_mode \in DataModes, allow_live_fetch \in BOOLEAN,
          api_key \in BOOLEAN :
         req = [r \in {1} |->
                   Request(r, Query(FALSE, FALSE, deep, asks, MaxTurns), history,
                           data_mode, "auto", allow_live_fetch, api_key)]

\* two requests at a time: one in replay mode, one in live cache-only mode
InitOverlap ==
    /\ NoRequest
    /\ \E asks \in [{1, 2} -> {{"search_player"}, {"show_form_chart"}}] :
         req = [r \in {1, 2} |->
                   Request(r, Query(FALSE, FALSE, TRUE, asks[r], MaxOverlapTurns), <<>>,
                           IF r = 1 THEN "replay" ELSE "live", "auto",
                           r = 1, TRUE)]

\* agent_query up to the first await of run_agent: the warnings of the
\* handler, set_request_context, the intent, the tools, the API key and the
\* messages of the history
AgentQuery ==
    \E r \in DOMAIN req :
        /\ req[r].pc = "new"
        /\ LET q0 == [req[r] EXCEPT !.warnings = ProtocolWarnings(req[r]),
                                    !.agent_history = AgentHistory(req[r])]
               intent == route_intent(q0.query, q0.agent_history)
               q1 == [q0 EXCEPT !.intent = intent]
               q2 == [q1 EXCEPT !.tool_map = select_tools(intent, q0.max_depth)]
           IN  /\ _request_context' =
                      set_request_context(_request_context, q0.data_mode,
                                          q0.allow_live_fetch)
               /\ req' = [req EXCEPT ![r] =
                      IF intent = "INSUFFICIENT_CONTEXT"
                      THEN Done(q1, InsufficientContextError)
                      ELSE IF ~q0.api_key
                      THEN Done(q2, ContractError("UPSTREAM_DOWN",
                                        Text("OPENAI_API_KEY is not configured.")))
                      ELSE IF \E i \in 1..Len(q0.agent_history) :
                                  ~IsDict(q0.agent_history[i])
                      THEN Done(q2, AttributeError)
                      ELSE [q2 EXCEPT !.pc = "llm", !.llm_calls = 1]]
        /\ UNCHANGED <<_cache, now, got, log>>
        /\ UNCHANGED call

\* the response of the LLM has arrived
Received(q, tool_calls) ==
    [q EXCEPT !.tool_calls = tool_calls, !.answered = @ + 1]

\* the request r after the tool calls of a response have left after
AfterToolCalls(r, after) ==
    /\ req' = [req EXCEPT ![r] =
               IF after.q.raised # None THEN Done(after.q, after.q.raised)
               ELSE [after.q EXCEPT !.rounds = @ + 1, !.llm_calls = @ + 1]]
    /\ _request_context' = after.ctx
    /\ _cache' = after.store

\* the LLM answers; run_agent goes on to its next await or to its end, and
\* agent_query builds the envelope when run_agent has ended. The tool calls
\* of one response run without another request in between
LLMResponds ==
    \E r \in DOMAIN req :
        /\ req[r].pc = "llm"
        /\ \E tool_calls \in Responses(req[r]) :
             \E env \in EnvsOf(tool_calls) :
                IF tool_calls = <<>>
                THEN /\ req' = [req EXCEPT ![r] =
                                   Done(Received(req[r], tool_calls),
                                        Answer(req[r], _request_context))]
                     /\ UNCHANGED <<_request_context, _cache>>
                ELSE IF ~LoopGoesOn(req[r].rounds)
                THEN /\ req' = [req EXCEPT ![r] =
                            Done(Received(req[r], tool_calls),
                                 ContractError("UPSTREAM_TIMEOUT",
                                     FString(<<"Agent exceeded max tool iterations (",
                                               MAX_TOOL_CALL_ITERATIONS, ").">>)))]
                     /\ UNCHANGED <<_request_context, _cache>>
                ELSE AfterToolCalls(r,
                         RunToolCalls(tool_calls, 1, Received(req[r], tool_calls),
                                      _request_context, _cache, env))
        /\ UNCHANGED <<now, got, log>>
        /\ UNCHANGED call

\* the call of the LLM raises
LLMFails ==
    \E r \in DOMAIN req :
        /\ req[r].pc = "llm"
        /\ req' = [req EXCEPT ![r] =
                      Done(req[r], ContractError("UPSTREAM_TIMEOUT",
                                       Text("LLM service unavailable")))]
        /\ UNCHANGED <<_cache, now, got, log, _request_context>>
        /\ UNCHANGED call

NextAgent == AgentQuery \/ LLMResponds \/ LLMFails

SpecAgent == InitAgent /\ [][NextAgent]_vars

\* every call of the LLM returns or raises, and the event loop resumes the
\* request that awaits it
SpecAgentFair == SpecAgent /\ WF_vars(NextAgent)

SpecQuery == InitQuery /\ [][NextAgent]_vars

SpecOverlap == InitOverlap /\ [][NextAgent]_vars

-----------------------------------------------------------------------------
(* All calls *)

Init == InitExtract \/ InitQuant \/ InitNullable \/ InitForm \/ InitInterpret
            \/ InitStatsList \/ InitNormalize

Next == NextExtract \/ NextQuant \/ NextNullable \/ ComputeForm
            \/ InterpretZscore \/ ExtractStatsList \/ NextNormalize

Spec == Init /\ [][Next]_vars

-----------------------------------------------------------------------------
(* Properties of metric extraction *)

Extracted == pc = "done" /\ op \in ExtractOps /\ metric \in RawKeys

AllDicts(stats) == \A i \in 1..Len(stats) : stats[i].dict

HasType(stats, t) == \E i \in 1..Len(stats) : stats[i].dict /\ stats[i].type = t

\* the first observation of the list that carries type id t
FirstOfType(stats, t) ==
    stats[CHOOSE i \in 1..Len(stats) :
            /\ stats[i].dict /\ stats[i].type = t
            /\ \A j \in 1..(i - 1) : ~(stats[j].dict /\ stats[j].type = t)]

CandidateIds(m) == {m.api_type_id} \cup Range(LIVE_TYPE_ID_FALLBACKS(m.key))

NoCandidatePresent(stats, m) == \A t \in CandidateIds(m) : ~HasType(stats, t)

\* position, in lookup order, of the first candidate id the list carries
FirstPresent(stats, m) ==
    LET c == <<m.api_type_id>> \o LIVE_TYPE_ID_FALLBACKS(m.key)
    IN  CHOOSE j \in 1..Len(c) :
            /\ HasType(stats, c[j])
            /\ \A h \in 1..(j - 1) : ~HasType(stats, c[h])

\* the observation that decides the lookup: the first one of the first
\* candidate id present
Deciding(stats, m) ==
    LET c == <<m.api_type_id>> \o LIVE_TYPE_ID_FALLBACKS(m.key)
    IN  FirstOfType(stats, c[FirstPresent(stats, m)])

ZeroOrAbsent(m) ==
    IF m.missing_semantic = "true_zero" THEN IntV(0) ELSE None

\* the observation lists extract_metric_value is defined on hold mappings only
InDomain == op = "_extract_metric_value_with_fallback" \/ AllDicts(statistics)

\* C1: for every raw metric, when the list has no observation under the
\* metric's canonical or fallback type ids, or the observation that the lookup
\* finds has a null value, both extract_metric_value and
\* _extract_metric_value_with_fallback return 0 for a TrueZero metric and None
\* for a Missing metric.
C1_AbsentOrNullYieldsPolicyDefault ==
    Extracted /\ InDomain =>
        LET m == KEY_TO_METRIC(metric)
        IN  (\/ NoCandidatePresent(statistics, m)
             \/ Deciding(statistics, m).value = None)
            => ret = ZeroOrAbsent(m)

C1_Witness ==
    /\ Extracted
    /\ metric = "rating"
    /\ ~HasType(statistics, 10)
    /\ HasType(statistics, 0)
    /\ Deciding(statistics, RATING).value = None
    /\ ret = None

\* C2: for every raw metric, of either missing policy, when the observation
\* found under the metric's type id has the explicit value 0, extraction
\* returns 0 and not the policy default.
C2_ObservedZeroIsZero ==
    Extracted /\ InDomain =>
        LET m == KEY_TO_METRIC(metric)
        IN  /\ (HasType(statistics, m.api_type_id)
                /\ FirstOfType(statistics, m.api_type_id).value = IntV(0))
               => ret = IntV(0)
            /\ (op = "_extract_metric_value_with_fallback"
                /\ ~NoCandidatePresent(statistics, m)
                /\ Deciding(statistics, m).value = IntV(0))
               => ret = IntV(0)

C2_Witness ==
    /\ Extracted
    /\ op = "extract_metric_value"
    /\ metric = "expected_goals"
    /\ HasType(statistics, 42)
    /\ FirstOfType(statistics, 42).value = IntV(0)
    /\ ret = IntV(0)

\* C3: _extract_metric_value_with_fallback tries the canonical id and then the
\* fallback ids in listed order; the first id that is present in the list
\* decides the result (its coerced value if non-null, the policy default
\* otherwise) whatever later ids carry, and the default is returned when no id
\* is present.
C3_FirstFoundFallback ==
    (Extracted /\ op = "_extract_metric_value_with_fallback") =>
        LET m == KEY_TO_METRIC(metric)
        IN  IF NoCandidatePresent(statistics, m) THEN ret = ZeroOrAbsent(m)
            ELSE LET v == _coerce_numeric(Deciding(statistics, m).value)
                 IN  ret = IF v = None THEN ZeroOrAbsent(m) ELSE v

\* a fallback id with a null value hides a later fallback id with a value
C3_Witness ==
    /\ Extracted
    /\ op = "_extract_metric_value_with_fallback"
    /\ metric = "assists"
    /\ ~HasType(statistics, 22)
    /\ HasType(statistics, 226)
    /\ FirstOfType(statistics, 226).value = None
    /\ HasType(statistics, 1)
    /\ FirstOfType(statistics, 1).value = IntV(3)
    /\ ret = IntV(0)

\* the number a numeric string denotes: decimal or scientific notation,
\* surrounding whitespace ignored
Denoted(s) == PyFloat(Strip(s))

\* C4: when the matched observation has a non-null value that is a native
\* number or a string, the extraction returns a native number as it is and a
\* numeric string (integer, decimal or scientific notation) as the number it
\* denotes; a string that is no number is handled like a null value; so the
\* result is a number or None.
C4_CoercesEveryNumericString ==
    (/\ Extracted
     /\ op = "_extract_metric_value_with_fallback"
     /\ ~NoCandidatePresent(statistics, KEY_TO_METRIC(metric))) =>
        LET m == KEY_TO_METRIC(metric)
            v == Deciding(statistics, m).value
        IN  /\ IsNum(v) => ret = v
            /\ (v.k = "str" /\ Denoted(v.s) # ValueError) => ret = Denoted(v.s)
            /\ (v.k = "str" /\ Denoted(v.s) = ValueError) => ret = ZeroOrAbsent(m)
            /\ v.k \in {"num", "str"} => (IsNum(ret) \/ ret = None)

-----------------------------------------------------------------------------
(* Properties of the per-90 and derived computations *)

Returned(o) == pc = "done" /\ op = o /\ result.k = "QuantResult"

ByMinutes(key) ==
    key \in MetricKeys /\ KEY_TO_METRIC(key).per90_rule = "per90_by_minutes"

\* the games (by position) whose metrics hold a value under every key of keys
Present(keys) ==
    {i \in 1..Len(games) :
        \A key \in keys :
            key \in DOMAIN games[i].metrics /\ games[i].metrics[key] # None}

Absent(keys) == (1..Len(games)) \ Present(keys)

\* the sum of what the games at the positions S hold under key, a game
\* without the key counting for nothing
RECURSIVE SumOf(_, _)
SumOf(key, S) ==
    IF S = {} THEN IntV(0)
    ELSE LET i == CHOOSE j \in S : TRUE
         IN  Add(IF key \in DOMAIN games[i].metrics
                 THEN games[i].metrics[key] ELSE IntV(0),
                 SumOf(key, S \ {i}))

\* the positions in the warnings of the result that hold a warning of a code
WithCode(code) ==
    {j \in 1..Len(result.warnings) : result.warnings[j].code = code}

\* the positions of the warnings of a code that name the game at position i
ForGame(code, i) ==
    {j \in WithCode(code) :
        /\ "game_id" \in DOMAIN result.warnings[j].details
        /\ result.warnings[j].details.game_id = games[i].game_id}

Rate(key, S) == Mul(Div(SumOf(key, S), SumOf("minutes_played", S)), IntV(90))

\* C5 as stated: for every sequence of games, compute_per90 of a ByMinutes
\* metric returns sum(metric) / sum(minutes_played) * 90 over the games that
\* have the metric, and every game without it contributes one
\* METRIC_UNAVAILABLE warning to the result
C5_RateAndWarningForEverySequence ==
    Returned("compute_per90") /\ ByMinutes(metric_key) =>
        LET P == Present({metric_key})
        IN  /\ SumOf("minutes_played", P) # IntV(0) =>
                   result.value = Rate(metric_key, P)
            /\ \A i \in Absent({metric_key}) :
                   Cardinality(ForGame("METRIC_UNAVAILABLE", i)) = 1

\* C5 amended: when at least one game has the ByMinutes metric, every game
\* without it is left out of both sums and contributes exactly one
\* METRIC_UNAVAILABLE warning naming that game and the metric, and when the
\* minutes of the games that have it add up to 90 or more the value is
\* sum(metric) / sum(minutes_played) * 90 over those games
C5_RateOverContributingGames ==
    Returned("compute_per90") /\ ByMinutes(metric_key)
        /\ Present({metric_key}) # {} =>
        LET P == Present({metric_key})
            A == Absent({metric_key})
        IN  /\ result.error = None
            /\ ~Less(SumOf("minutes_played", P), IntV(90)) =>
                   result.value = Rate(metric_key, P)
            /\ Cardinality(WithCode("METRIC_UNAVAILABLE")) = Cardinality(A)
            /\ \A i \in A :
                   /\ Cardinality(ForGame("METRIC_UNAVAILABLE", i)) = 1
                   /\ \A j \in ForGame("METRIC_UNAVAILABLE", i) :
                          result.warnings[j].details =
                              [game_id |-> games[i].game_id,
                               metric |-> metric_key]

\* a rate over two games with the metric, beside a game without it whose
\* minutes are on record
C5_Witness ==
    /\ Returned("compute_per90")
    /\ metric_key = "expected_goals"
    /\ Cardinality(Present({metric_key})) = 2
    /\ \E i \in Absent({metric_key}) : "minutes_played" \in DOMAIN games[i].metrics
    /\ IsNum(result.value)
    /\ result.value # IntV(0)

\* C6: when no game (the empty list included) has a value for the ByMinutes
\* metric, compute_per90 returns no value, no error, and exactly one warning,
\* the aggregate METRIC_UNAVAILABLE that names the metric and no game
C6_NoValueAnywhereOneAggregateWarning ==
    Returned("compute_per90") /\ ByMinutes(metric_key)
        /\ Present({metric_key}) = {} =>
        /\ result.value = None
        /\ result.error = None
        /\ Len(result.warnings) = 1
        /\ result.warnings[1] =
               Warning("METRIC_UNAVAILABLE", [metric |-> metric_key])

C6_Witness ==
    /\ Returned("compute_per90")
    /\ metric_key = "shots_total"
    /\ Len(games) = 2
    /\ Present({metric_key}) = {}
    /\ Len(result.warnings) = 1

\* C7: when some game contributed and the minutes of the contributing games
\* add up to less than 90, compute_per90 returns no value and an
\* INSUFFICIENT_MINUTES warning with that total and the threshold 90; at 90
\* or more it returns a number; a number is never returned below 90
C7_MinutesThreshold ==
    Returned("compute_per90") /\ ByMinutes(metric_key)
        /\ Present({metric_key}) # {} =>
        LET total == SumOf("minutes_played", Present({metric_key}))
        IN  /\ Less(total, IntV(90)) =>
                /\ result.value = None
                /\ \E j \in WithCode("INSUFFICIENT_MINUTES") :
                       result.warnings[j].details =
                           [total_minutes |-> total, threshold |-> 90]
            /\ ~Less(total, IntV(90)) =>
                /\ IsNum(result.value)
                /\ WithCode("INSUFFICIENT_MINUTES") = {}
            /\ IsNum(result.value) => ~Less(total, IntV(90))

\* 45 contributed minutes, with further minutes in a game that did not
\* contribute
C7_Witness ==
    /\ Returned("compute_per90")
    /\ metric_key = "key_passes"
    /\ Present({metric_key}) # {}
    /\ SumOf("minutes_played", Present({metric_key})) = IntV(45)
    /\ ~Less(SumOf("minutes_played", 1..Len(games)), IntV(90))
    /\ result.value = None
    /\ WithCode("INSUFFICIENT_MINUTES") # {}

\* the calls the code ends with a terminal error
TerminalCall ==
    \/ op = "compute_per90" /\ metric_key \notin MetricKeys
    \/ op = "compute_per90" /\ metric_key \in MetricKeys
           /\ KEY_TO_METRIC(metric_key).per90_rule = "na"
    \/ op = "compute_derived" /\ metric_key \notin MetricKeys
    \/ op = "compute_zscore" /\ per90_value = None

\* the weighted ratio is computed: asked for as a derived metric, or as a
\* per-90 rate, which is redirected
ShotAccuracyCall ==
    /\ op \in {"compute_per90", "compute_derived"}
    /\ metric_key = "shot_accuracy"

\* the calls whose data are absent or too thin: no game had a value or too
\* few minutes, a missing input or a zero divisor, a baseline to fall back from
DataAbsence ==
    \/ /\ op = "compute_per90" /\ ByMinutes(metric_key)
       /\ \/ Present({metric_key}) = {}
          \/ Less(SumOf("minutes_played", Present({metric_key})), IntV(90))
    \/ /\ ShotAccuracyCall
       /\ \/ Absent({"shots_on_target", "shots_total"}) # {}
          \/ SumOf("shots_total", Present({"shots_on_target", "shots_total"}))
                 = IntV(0)
    \/ /\ op = "compute_derived" /\ metric_key = "xg_overperformance"
       /\ Absent({"expected_goals"}) # {}
    \/ /\ op = "compute_derived" /\ metric_key = "minutes_per_goal"
       /\ SumOf("goals", Present({"goals"})) = IntV(0)
    \/ /\ op = "compute_zscore" /\ per90_value # None
       /\ \/ baseline = None
          \/ "std" \notin DOMAIN baseline
          \/ baseline["std"] \in {None, IntV(0)}
          \/ "n" \notin DOMAIN baseline
          \/ Less(baseline["n"], IntV(30))

\* C8: a terminal call (compute_per90 of an unknown key or of a metric with
\* no per-90 rule, compute_derived of an unknown key, compute_zscore of no
\* value) returns the error set and no value; a call whose data are absent
\* returns with the error unset, and no value or a warning in its place
C8_TerminalErrorsApartFromDataAbsence ==
    pc = "done" /\ op \in QuantOps =>
        /\ result.k = "QuantResult"
        /\ TerminalCall => result.error # None /\ result.value = None
        /\ DataAbsence =>
               /\ result.error = None
               /\ result.value = None \/ result.warnings # <<>>

\* a metric with no per-90 rule, asked for over a game that has it
C8_Witness ==
    /\ Returned("compute_per90")
    /\ metric_key = "rating"
    /\ Present({"rating"}) # {}
    /\ result.error = ErrorText("does not support per-90 normalization")
    /\ result.value = None

\* C9: a classification mismatch is an explicit error: compute_derived of a
\* metric that is not derived, and compute_per90 of a derived metric that is
\* not a weighted ratio, return the error set, no value and no warnings
C9_ClassificationMismatchIsError ==
    Returned(op) /\ metric_key \in MetricKeys =>
        LET m == KEY_TO_METRIC(metric_key)
            mismatch ==
                \/ op = "compute_derived" /\ ~m.is_derived
                \/ op = "compute_per90" /\ m.is_derived
                       /\ m.per90_rule # "weighted_ratio"
        IN  mismatch =>
                /\ result.error # None
                /\ result.value = None
                /\ result.warnings = <<>>

\* C10: shot_accuracy is sum(shots_on_target) / sum(shots_total) over the
\* games that have both; each game without one of them adds exactly one
\* METRIC_UNAVAILABLE warning naming it; when the total of shots is zero
\* (every game skipped included) there is no value, and no error either
C10_ShotAccuracyWeightedRatio ==
    pc = "done" /\ ShotAccuracyCall =>
        LET Both == Present({"shots_on_target", "shots_total"})
            Skipped == Absent({"shots_on_target", "shots_total"})
            total_on == SumOf("shots_on_target", Both)
            total_shots == SumOf("shots_total", Both)
        IN  /\ result.k = "QuantResult"
            /\ result.error = None
            /\ total_shots = IntV(0) => result.value = None
            /\ total_shots # IntV(0) => result.value = Div(total_on, total_shots)
            /\ Len(result.warnings) = Cardinality(Skipped)
            /\ \A i \in Skipped :
                   /\ Cardinality(ForGame("METRIC_UNAVAILABLE", i)) = 1
                   /\ \A j \in ForGame("METRIC_UNAVAILABLE", i) :
                          result.warnings[j].details =
                              [game_id |-> games[i].game_id]

\* a ratio over two games, beside a game that has the shots on target only
C10_Witness ==
    /\ Returned("compute_derived")
    /\ metric_key = "shot_accuracy"
    /\ Cardinality(Present({"shots_on_target", "shots_total"})) = 2
    /\ \E i \in Absent({"shots_on_target", "shots_total"}) :
           /\ "shots_on_target" \in DOMAIN games[i].metrics
           /\ games[i].metrics["shots_on_target"] = IntV(3)
    /\ result.value = Num(3, 10, 0)
    /\ Len(result.warnings) = 1

-----------------------------------------------------------------------------
(* Properties of the derived metrics that sum over every game *)

\* the sum of what the games at the positions S hold under key, a game
\* without the key or with None under it counting as 0
RECURSIVE SumZero(_, _)
SumZero(key, S) ==
    IF S = {} THEN IntV(0)
    ELSE LET i == CHOOSE j \in S : TRUE
         IN  Add(IF i \in Present({key}) THEN games[i].metrics[key] ELSE IntV(0),
                 SumZero(key, S \ {i}))

AllGames == 1..Len(games)

DerivedCall(key) == pc = "done" /\ op = "compute_derived" /\ metric_key = key

\* C11: goal_involvement is sum(goals) + sum(assists) over all games, an
\* absent goals or assists (no key, or None) counting as 0; the call
\* returns a number for every list of games, with no warning and no error
C11_GoalInvolvementAdditive ==
    DerivedCall("goal_involvement") =>
        /\ result.k = "QuantResult"
        /\ result.value =
               Add(SumZero("goals", AllGames), SumZero("assists", AllGames))
        /\ IsNum(result.value)
        /\ result.warnings = <<>>
        /\ result.error = None

\* a game with goals None and assists 1 beside a game with goals only
C11_Witness ==
    /\ DerivedCall("goal_involvement")
    /\ \E i, j \in AllGames :
          /\ "goals" \in DOMAIN games[i].metrics
          /\ games[i].metrics["goals"] = None
          /\ i \in Present({"assists"}) /\ games[i].metrics["assists"] = IntV(1)
          /\ "assists" \notin DOMAIN games[j].metrics
          /\ j \in Present({"goals"}) /\ games[j].metrics["goals"] = IntV(2)
    /\ Len(games) = 2
    /\ result.value = IntV(3)

\* C12: with expected_goals absent in any game, at any position,
\* xg_overperformance has no value and exactly one warning,
\* METRIC_UNAVAILABLE; otherwise it is sum(goals, absent as 0) -
\* sum(expected_goals) with no warning
C12_XgAllOrNothing ==
    DerivedCall("xg_overperformance") =>
        /\ result.k = "QuantResult"
        /\ result.error = None
        /\ Absent({"expected_goals"}) # {} =>
               /\ result.value = None
               /\ Len(result.warnings) = 1
               /\ result.warnings[1].code = "METRIC_UNAVAILABLE"
        /\ Absent({"expected_goals"}) = {} =>
               /\ result.value = Sub(SumZero("goals", AllGames),
                                     SumOf("expected_goals", AllGames))
               /\ result.warnings = <<>>

\* xG is there in the first game and the last, and absent between them
C12_Witness ==
    /\ DerivedCall("xg_overperformance")
    /\ Len(games) = MaxGames
    /\ Present({"expected_goals"}) = {1, MaxGames}
    /\ result.value = None
    /\ Len(result.warnings) = 1

\* C13: minutes_per_goal is sum(minutes_played) / sum(goals) over all games,
\* an absent minutes_played or goals (no key, or None) counting as 0; with a
\* goals total of zero there is no value and a METRIC_UNAVAILABLE warning
C13_MinutesPerGoalAbsentAsZero ==
    DerivedCall("minutes_per_goal") =>
        LET total_mins == SumZero("minutes_played", AllGames)
            total_goals == SumZero("goals", AllGames)
        IN  /\ result.k = "QuantResult"
            /\ total_goals = IntV(0) =>
                   /\ result.value = None
                   /\ Len(result.warnings) = 1
                   /\ result.warnings[1].code = "METRIC_UNAVAILABLE"
            /\ total_goals # IntV(0) =>
                   result.value = Div(total_mins, total_goals)

-----------------------------------------------------------------------------
(* Properties of the form series *)

\* C14: the series of compute_form holds one entry per game for the first
\* min(window, number of games) games, in the order given; the entry of a
\* game without the metric is None at that game's own position
C14_FormSeriesKeepsGaps ==
    pc = "done" /\ op = "compute_form" =>
        LET n == IF window < Len(games) THEN window ELSE Len(games)
        IN  /\ result.k = "QuantResult"
            /\ Len(result.raw_values) = n
            /\ \A i \in 1..n :
                   result.raw_values[i] =
                       IF i \in Present({metric_key})
                       THEN games[i].metrics[metric_key] ELSE None

\* a window of two over three games, the first without the metric
C14_Witness ==
    /\ pc = "done" /\ op = "compute_form"
    /\ metric_key = "rating"
    /\ Len(games) = 3
    /\ window = 2
    /\ Present({"rating"}) = {2, 3}
    /\ games[2].metrics["rating"] # games[3].metrics["rating"]
    /\ result.raw_values = <<None, games[2].metrics["rating"]>>

-----------------------------------------------------------------------------
(* Properties of the z-score *)

\* the result is the per90 value as it came, with no error and one
\* BASELINE_MISSING warning whose details carry the reason
FallsBack(reason) ==
    /\ result.value = per90_value
    /\ result.error = None
    /\ Len(result.warnings) = 1
    /\ result.warnings[1].code = "BASELINE_MISSING"
    /\ "reason" \in DOMAIN result.warnings[1].details
    /\ result.warnings[1].details.reason = reason

\* C15: with no baseline entry, with a standard deviation that is None or 0,
\* and with n below 30, compute_zscore returns the per90 value unchanged, no
\* error, and one BASELINE_MISSING warning whose details carry the reason
\* "no baseline", "zero_variance" or "low_sample" (with n); only otherwise is
\* the value (per90 - mean) / std
C15_GuardrailsCarryReason ==
    pc = "done" /\ op = "compute_zscore" /\ per90_value # None =>
        LET std == IF baseline = None THEN None ELSE Get(baseline, "std")
            n == IF baseline = None THEN None ELSE GetOr(baseline, "n", IntV(0))
        IN  /\ result.k = "QuantResult"
            /\ IF baseline = None THEN FallsBack("no baseline")
               ELSE IF std = None \/ std = IntV(0) THEN FallsBack("zero_variance")
               ELSE IF Less(n, IntV(30))
               THEN FallsBack("low_sample") /\ result.warnings[1].details.n = n
               ELSE /\ result.value = Div(Sub(per90_value, baseline["mean"]), std)
                    /\ result.warnings = <<>>
                    /\ result.error = None

\* the magnitude of z is at least b: z >= b or z <= -b
Magnitude(b) == ~Less(z, b) \/ ~Less(Neg(b), z)

\* C16: interpret_zscore labels z by |z| with inclusive breakpoints: from 3
\* Extraordinary, from 2 Exceptional, from 1 Notably, from 0.5 Slightly,
\* below that Average; the four labels other than Average say "above" for a
\* positive z and "below" for a negative one; None gives "unavailable"
C16_LabelsByMagnitude ==
    pc = "done" /\ op = "interpret_zscore" =>
        LET dir == IF z.n > 0 THEN "above" ELSE "below"
        IN  out.text =
              IF z = None THEN "unavailable"
              ELSE IF Magnitude(IntV(3))
                   THEN IF dir = "above" THEN "Extraordinary (above average)"
                        ELSE "Extraordinary (below average)"
              ELSE IF Magnitude(IntV(2))
                   THEN IF dir = "above" THEN "Exceptional (above average)"
                        ELSE "Exceptional (below average)"
              ELSE IF Magnitude(IntV(1))
                   THEN IF dir = "above" THEN "Notably above average"
                        ELSE "Notably below average"
              ELSE IF Magnitude(Num(1, 2, 0))
                   THEN IF dir = "above" THEN "Slightly above average"
                        ELSE "Slightly below average"
              ELSE "Average"

\* z is exactly -3, a breakpoint
C16_Witness ==
    /\ pc = "done" /\ op = "interpret_zscore"
    /\ z = IntV(-3)
    /\ out.text = "Extraordinary (below average)"

-----------------------------------------------------------------------------
(* Properties of normalization *)

\* the four locations of a record's observations, in the order of resolution
Locations ==
    IF ~IsDict(raw) THEN <<>>
    ELSE LET nested == IF "lineup" \in DOMAIN raw.f /\ IsDict(raw.f["lineup"])
                       THEN raw.f["lineup"].f ELSE <<>>
             At(f, key) == IF key \in DOMAIN f THEN f[key] ELSE None
         IN  <<At(raw.f, "statistics"), At(raw.f, "athleteStats"),
               At(nested, "statistics"), At(nested, "athleteStats")>>

\* the positions of the locations that hold a non-empty list
Holding == {i \in 1..Len(Locations) :
               Locations[i].k = "list" /\ Len(Locations[i].items) > 0}

\* C20: the observations of a record are those of the first of its four
\* locations (statistics, athleteStats, lineup.statistics,
\* lineup.athleteStats) that holds a non-empty list, whatever the earlier
\* locations hold; the result is empty only when no location holds one
C20_FirstNonEmptyLocation ==
    pc = "done" /\ op = "_extract_stats_list" =>
        /\ Holding # {} =>
               \E i \in Holding :
                   /\ \A j \in Holding : i <= j
                   /\ out = ListV(Locations[i].items)
        /\ Holding = {} => out = ListV(<<>>)

\* an empty list, a value that is no list and a missing field come before the
\* nested athleteStats, which is used
C20_Witness ==
    /\ pc = "done" /\ op = "_extract_stats_list"
    /\ IsDict(raw)
    /\ DOMAIN raw.f = {"statistics", "athleteStats", "lineup"}
    /\ raw.f["statistics"] = ListV(<<>>)
    /\ raw.f["athleteStats"] = Other
    /\ Holding = {4}
    /\ "statistics" \notin DOMAIN raw.f["lineup"].f
    /\ out = ListV(<<Stat(MINUTES_PLAYED.api_type_id, IntV(3))>>)

Normalized == pc = "done" /\ op \in NormalizeOps /\ out.k = "normalized"

\* an identifier is recognized when it is the canonical id or a fallback id
\* of some raw metric
Recognized(id) ==
    \E rm \in Range(ALL_RAW_METRICS) :
        \/ id = rm.api_type_id
        \/ id \in Range(LIVE_TYPE_ID_FALLBACKS(rm.key))

\* the positions of the observations of stats that carry an unknown identifier
UnknownAt(stats) ==
    {i \in 1..Len(stats) :
        /\ stats[i].dict
        /\ stats[i].type # NoTypeId
        /\ ~Recognized(stats[i].type)}

\* the distinct unknown identifiers of a list of observations
UnknownIdsOf(stats) == {stats[i].type : i \in UnknownAt(stats)}

\* the positions of the warnings with a code
GapsOf(warnings) ==
    {j \in 1..Len(warnings) : warnings[j].code = "NORMALIZATION_GAP"}

\* game-list mode: one warning for each game with unknown identifiers, which
\* lists them all, and none for the other games
GamesGapPerGame ==
    Normalized /\ op = "_normalize_games" =>
        LET raw_games == DictGetOr(raw, "games", ListV(<<>>)).items
            W == out.normalization_warnings
        IN  /\ Len(out.games) = Len(raw_games)
            /\ \A i \in 1..Len(raw_games) :
                   LET U == UnknownIdsOf(_extract_stats_list(raw_games[i]))
                       mine == {j \in GapsOf(W) :
                                   W[j].details.game_id = out.games[i].game_id}
                   IN  IF U = {} THEN mine = {}
                       ELSE /\ Cardinality(mine) = 1
                            /\ \A j \in mine :
                                   Range(W[j].details.unknown_type_ids) = U

\* lineup mode: as many warnings as distinct unknown identifiers, one for each
LineupGapPerIdentifier ==
    Normalized /\ op = "_normalize_lineup" =>
        LET U == UnknownIdsOf(_extract_stats_list(DictGetOr(raw, "lineup", raw)))
            W == out.normalization_warnings
        IN  /\ Cardinality(GapsOf(W)) = Cardinality(U)
            /\ \A id \in U :
                   Cardinality({j \in GapsOf(W) :
                                   W[j].details.unknown_type_id = id}) = 1

\* C17: game-list normalization gives each game with an unknown identifier
\* exactly one NORMALIZATION_GAP warning listing the full set of that game's
\* unknown identifiers and gives the other games none; lineup normalization
\* gives as many NORMALIZATION_GAP warnings as there are distinct unknown
\* identifiers, one for each; an identifier is unknown exactly when it is
\* neither the canonical nor a fallback id of a raw metric
C17_GapWarningGranularity == GamesGapPerGame /\ LineupGapPerIdentifier

\* a list of observations without those that carry an unknown identifier
Known(stats) ==
    LET keep == {i \in 1..Len(stats) : i \notin UnknownAt(stats)}
        RECURSIVE Pick(_)
        Pick(i) == IF i > Len(stats) THEN <<>>
                   ELSE IF i \in keep THEN <<stats[i]>> \o Pick(i + 1)
                   ELSE Pick(i + 1)
    IN  Pick(1)

\* the unknown identifiers of a list of observations, in their order
Added(stats) ==
    LET RECURSIVE Pick(_)
        Pick(i) == IF i > Len(stats) THEN <<>>
                   ELSE IF i \in UnknownAt(stats)
                   THEN <<stats[i].type>> \o Pick(i + 1)
                   ELSE Pick(i + 1)
    IN  Pick(1)

\* a record whose "statistics" list is without the unknown observations
WithoutUnknown(record) ==
    IF IsDict(record) /\ IsList(DictGet(record, "statistics"))
    THEN Dict([record.f EXCEPT
                  !["statistics"] = ListV(Known(record.f["statistics"].items))])
    ELSE record

\* the payload of the call without the unknown observations of its lists
Base ==
    IF op = "_normalize_games"
    THEN Dict([raw.f EXCEPT
                  !["games"] = ListV([i \in 1..Len(raw.f["games"].items) |->
                                         WithoutUnknown(raw.f["games"].items[i])])])
    ELSE IF "lineup" \in DOMAIN raw.f
    THEN Dict([raw.f EXCEPT !["lineup"] = WithoutUnknown(raw.f["lineup"])])
    ELSE WithoutUnknown(raw)

\* the call has observations with unknown identifiers in a "statistics" list
HasAdded ==
    /\ IsDict(raw)
    /\ IF op = "_normalize_games"
       THEN /\ "games" \in DOMAIN raw.f
            /\ IsList(raw.f["games"])
       ELSE TRUE
    /\ Base # raw

C19_NeverRaises ==
    pc = "done" =>
        /\ op \in NormalizeOps => out.k = "normalized"
        /\ op \in {"compute_per90", "compute_derived"} =>
               result.k = "QuantResult"

-----------------------------------------------------------------------------
(* Properties of the cache and of the data tools *)

\* the entry get found in the _store had outlived its ttl_s
FoundExpired == got.entry # None /\ got.at - got.entry.created_at > got.entry.ttl_s

\* what get returned is the entry it found, no older than its ttl_s; an entry
\* found expired is not returned and is no longer in the _store
GetIsFresh ==
    got # NoResult =>
        /\ got.returned # None =>
               /\ got.returned = got.entry
               /\ got.at - got.returned.created_at <= got.returned.ttl_s
        /\ FoundExpired =>
               /\ got.returned = None
               /\ got.key \in DOMAIN _cache => _cache[got.key] # got.entry

\* the key of the call of get_athlete_games recorded as c
KeyOf(c) == GamesKey(c.data_mode, c.args.items[1], c.args.items[2])

\* a call of get_athlete_games that finds an expired entry under its key is
\* not answered from the cache, and the expired entry is gone after it
ExpiredIsMiss ==
    Len(log') = Len(log) + 1 =>
        LET c == log'[Len(log')]
            key == KeyOf(c)
        IN  (key \in DOMAIN _cache
                /\ now - _cache[key].created_at > _cache[key].ttl_s) =>
                /\ ~c.res.cache_hit
                /\ key \in DOMAIN _cache' => _cache'[key] # _cache[key]

\* C28: after any sequence of set, get and clock advance, TTLCache.get never
\* returns an entry whose age exceeds its TTL; the first get after expiry
\* removes the entry and returns nothing, so the next tool call for that key
\* is handled as a cache miss and never served the stale data
C28_BoundedStaleness == []GetIsFresh /\ [][ExpiredIsMiss]_vars

\* get has found an entry set with the default TTL two TTLs earlier, has
\* returned nothing and has removed it
C28_Witness ==
    /\ got # NoResult /\ FoundExpired
    /\ got.entry.ttl_s = CACHE_TTL_S
    /\ got.at = got.entry.created_at + 2 * CACHE_TTL_S
    /\ got.returned = None
    /\ got.key \notin DOMAIN _cache

\* a call returned a ToolResult (it did not raise)
IsResult(c) == c.res.k = "ToolResult"

Succeeded(c) == IsResult(c) /\ c.res.error = None

\* the call was answered from the cache
Hit(c) == IsResult(c) /\ c.res.cache_hit

\* the call fetched its data (from the API, an alias or a fixture) and
\* stored it in the cache
Stored(c) == Succeeded(c) /\ ~c.res.cache_hit

SameRequest(c, d) == c.op = d.op /\ c.args = d.args

HasWarning(c, code) ==
    IsResult(c) /\ \E w \in 1..Len(c.res.warnings) : c.res.warnings[w].code = code

\* C22: cache entries are isolated by data mode: the data of a cache hit was
\* stored by an earlier call of the same operation with the same arguments in
\* the same data mode, never by a call in the other mode; a live cache-only
\* call succeeds only with cache_hit = true, that is only if a live-mode call
\* stored the entry earlier
C22_CacheIsolatedByMode ==
    \A j \in 1..Len(log) :
        /\ Hit(log[j]) =>
               \E i \in 1..(j - 1) :
                   /\ Stored(log[i]) /\ SameRequest(log[i], log[j])
                   /\ log[i].data_mode = log[j].data_mode
                   /\ log[i].res.data = log[j].res.data
        /\ (log[j].data_mode = "live" /\ ~log[j].allow_live_fetch
                /\ Succeeded(log[j])) => Hit(log[j])

\* a replay call has stored the fixture of a search, and the same search in
\* live cache-only mode reports that it has no data
C22_Witness ==
    /\ Len(log) = 2
    /\ log[1].op = "search_entity" /\ log[1].data_mode = "replay"
    /\ Stored(log[1])
    /\ SameRequest(log[1], log[2])
    /\ log[2].data_mode = "live" /\ ~log[2].allow_live_fetch
    /\ ~Succeeded(log[2]) /\ HasWarning(log[2], "CACHE_ONLY_MODE")

\* call i stored an entry under the key of call j that has not expired when
\* call j is made
FreshAt(i, j) ==
    /\ Stored(log[i]) /\ SameRequest(log[i], log[j])
    /\ log[i].data_mode = log[j].data_mode
    /\ log[j].at - log[i].at <= CACHE_TTL_S

Miss(j) == ~ \E i \in 1..(j - 1) : FreshAt(i, j)

\* the upstream API is requested only in a mode other than replay, with
\* allow_live_fetch, and on a cache miss
ApiGate ==
    \A j \in 1..Len(log) :
        log[j].api # <<>> =>
            /\ log[j].data_mode # "replay"
            /\ log[j].allow_live_fetch
            /\ Miss(j)

\* C23 as stated: the upstream API client is called only when the data mode
\* is not replay, allow_live_fetch is true and no unexpired cache entry exists
\* for the request key; in replay mode it is never called; with
\* allow_live_fetch = false it is never called, and a cache miss returns an
\* error with a CACHE_ONLY_MODE warning
C23_UpstreamOnlyWhenAllowed ==
    /\ ApiGate
    /\ \A j \in 1..Len(log) :
           (~log[j].allow_live_fetch /\ Miss(j)) =>
               /\ IsResult(log[j]) /\ log[j].res.error # None
               /\ HasWarning(log[j], "CACHE_ONLY_MODE")

\* C23 amended: as C23, but a cache miss with allow_live_fetch = false
\* returns the CACHE_ONLY_MODE error in live mode only; in replay mode the
\* miss is answered from the fixture (or with the fixture-not-found error),
\* with a DATA_MODE_REPLAY warning and no CACHE_ONLY_MODE warning
C23_UpstreamOnlyWhenAllowedLive ==
    /\ ApiGate
    /\ \A j \in 1..Len(log) :
           (~log[j].allow_live_fetch /\ Miss(j)) =>
               /\ IsResult(log[j])
               /\ log[j].data_mode = "live" =>
                      /\ log[j].res.error # None
                      /\ HasWarning(log[j], "CACHE_ONLY_MODE")
               /\ log[j].data_mode = "replay" =>
                      /\ HasWarning(log[j], "DATA_MODE_REPLAY")
                      /\ ~HasWarning(log[j], "CACHE_ONLY_MODE")

\* a replay call with allow_live_fetch = false has missed the cache and was
\* answered from the fixture, and the same call in live mode with
\* allow_live_fetch has missed too and has requested the API
C23_Witness ==
    /\ Len(log) = 2
    /\ log[1].op = "get_athlete_games" /\ log[1].data_mode = "replay"
    /\ ~log[1].allow_live_fetch /\ Miss(1)
    /\ Stored(log[1]) /\ log[1].api = <<>>
    /\ HasWarning(log[1], "DATA_MODE_REPLAY")
    /\ SameRequest(log[1], log[2]) /\ log[2].data_mode = "live"
    /\ log[2].allow_live_fetch /\ Miss(2)
    /\ log[2].api # <<>> /\ Stored(log[2])

\* C24: after a call that fetched and stored its data, a later call of the
\* same operation with the same arguments and mode, made before the entry
\* expires, returns cache_hit = true, equal data and a USED_CACHED_DATA
\* warning, and in replay mode a DATA_MODE_REPLAY warning too; every
\* successful replay call carries DATA_MODE_REPLAY
C24_SecondCallIsCacheHit ==
    /\ \A j \in 1..Len(log) : \A i \in 1..(j - 1) :
           FreshAt(i, j) =>
               /\ Hit(log[j]) /\ Succeeded(log[j])
               /\ log[j].res.data = log[i].res.data
               /\ HasWarning(log[j], "USED_CACHED_DATA")
               /\ log[j].data_mode = "replay" => HasWarning(log[j], "DATA_MODE_REPLAY")
    /\ \A j \in 1..Len(log) :
           (log[j].data_mode = "replay" /\ Succeeded(log[j])) =>
               HasWarning(log[j], "DATA_MODE_REPLAY")

\* the lineup fixture was loaded in replay mode and the same call, made when
\* the entry is exactly one TTL old, is answered from the cache
C24_Witness ==
    /\ Len(log) = 2
    /\ log[1].op = "get_game_lineup" /\ log[1].data_mode = "replay"
    /\ Stored(log[1]) /\ FreshAt(1, 2)
    /\ log[2].at = log[1].at + CACHE_TTL_S
    /\ Hit(log[2]) /\ log[2].res.data = log[1].res.data
    /\ HasWarning(log[2], "USED_CACHED_DATA")
    /\ HasWarning(log[2], "DATA_MODE_REPLAY")

-----------------------------------------------------------------------------
(* Properties of run_agent and of /agent/query *)

Requests == DOMAIN req

Over(r) == req[r].pc = "done"

\* run_agent has returned an AgentResult
Answered(r) == Over(r) /\ req[r].outcome.k = "AgentResult"

IterationCapError(e) ==
    /\ IsRaise(e) /\ e.exc = "ContractError" /\ e.code = "UPSTREAM_TIMEOUT"
    /\ e.message.k = "fstring"
    /\ e.message.parts[1] = "Agent exceeded max tool iterations ("

\* the LLM is called at most MAX_TOOL_CALL_ITERATIONS + 1 times; a response
\* that requests tools after MAX_TOOL_CALL_ITERATIONS passes of the loop ends
\* the request with the iteration-cap error; an answer is returned only for
\* a last response without tool calls
LoopIsBounded ==
    \A r \in Requests :
        /\ req[r].llm_calls <= MAX_TOOL_CALL_ITERATIONS + 1
        /\ req[r].answered <= req[r].llm_calls
        /\ (Over(r) /\ req[r].rounds = MAX_TOOL_CALL_ITERATIONS
                /\ req[r].answered = req[r].llm_calls
                /\ req[r].tool_calls # <<>>) => IterationCapError(req[r].outcome)
        /\ Answered(r) =>
               /\ req[r].tool_calls = <<>>
               /\ req[r].answered = req[r].llm_calls

\* C25: run_agent always terminates, whatever the LLM answers: it invokes the
\* LLM at most MAX_TOOL_CALL_ITERATIONS + 1 times, and when the LLM response
\* still requests tool calls after MAX_TOOL_CALL_ITERATIONS rounds it raises
\* ContractError UPSTREAM_TIMEOUT with a 'max tool iterations' message
\* instead of returning an answer; an answer is returned only when the last
\* LLM response requests no tool call
C25_LoopTerminates == []LoopIsBounded /\ <>(\A r \in Requests : Over(r))

\* the sixth response of the LLM still requests a tool, after five passes in
\* which tools were executed, and the request ends with the iteration-cap
\* error
C25_Witness ==
    \E r \in Requests :
        /\ Over(r) /\ req[r].llm_calls = MAX_TOOL_CALL_ITERATIONS + 1
        /\ req[r].answered = req[r].llm_calls
        /\ req[r].tool_calls # <<>>
        /\ Len(req[r].tools_invoked_log) >= MAX_TOOL_CALL_ITERATIONS
        /\ IterationCapError(req[r].outcome)

\* C26: with max_depth = L1, for every intent and every sequence of tool
\* calls the LLM requests, no L2 tool is executed; a requested tool outside
\* the set selected for the request is answered with 'Error: Tool not
\* allowed' and is never executed; the L2 tools are selected only when the
\* intent is Deep and max_depth is not L1
C26_DepthGate ==
    \A r \in Requests :
        /\ \A i \in 1..Len(req[r].ran) :
               /\ req[r].ran[i].tool \in req[r].tool_map
               /\ req[r].max_depth = "L1" => req[r].ran[i].tool \notin L2Tools
        /\ \A i \in 1..Len(req[r].messages) :
               req[r].messages[i].tool \notin req[r].tool_map =>
                   req[r].messages[i].content = Text("Error: Tool not allowed")
        /\ req[r].tool_map \cap L2Tools # {} =>
               req[r].intent = "Deep" /\ req[r].max_depth # "L1"

\* a Deep request with max_depth = L1 whose LLM has requested search_player
\* and get_detailed_stats: the first was executed, the second refused
C26_Witness ==
    \E r \in Requests :
        /\ req[r].intent = "Deep" /\ req[r].max_depth = "L1"
        /\ Len(req[r].ran) = 1 /\ req[r].ran[1].tool = "search_player"
        /\ Len(req[r].messages) = 2
        /\ req[r].messages[2] = [tool |-> "get_detailed_stats",
                                  content |-> Text("Error: Tool not allowed")]

\* the codes of a list of warnings
Codes(warnings) == [i \in 1..Len(warnings) |-> warnings[i].code]

\* the warnings produced by the tools a request has executed, in order
RECURSIVE ProducedFrom(_, _)
ProducedFrom(ran, i) ==
    IF i > Len(ran) THEN <<>>
    ELSE Codes(ran[i].warnings) \o ProducedFrom(ran, i + 1)

Produced(r) == ProducedFrom(req[r].ran, 1)

\* the artifacts produced by the tools a request has executed, in order
RECURSIVE ArtifactsFrom(_, _)
ArtifactsFrom(ran, i) ==
    IF i > Len(ran) THEN <<>>
    ELSE ran[i].artifacts \o ArtifactsFrom(ran, i + 1)

EndsWith(list, tail) ==
    /\ Len(tail) <= Len(list)
    /\ SubSeq(list, Len(list) - Len(tail) + 1, Len(list)) = tail

\* C21: within one agent request, every warning returned by a data tool or
\* a quant computation invoked during the request is present in the warnings
\* of the response to that request, whether it ends with an ok envelope or
\* with an error envelope; no warning is dropped
C21_NoWarningDropped ==
    \A r \in Requests :
        Over(r) => EndsWith(Codes(req[r].response.warnings), Produced(r))

FixedUpstreamDown ==
    Text("Live data source is unavailable right now. Try replay mode or retry later.")

FixedUnavailable ==
    Text("The analysis service is temporarily unavailable. Please try again shortly.")

\* C27: the error envelope never exposes raw failure text: when the agent
\* raises ContractError UPSTREAM_DOWN the response's error.message is the
\* fixed text 'Live data source is unavailable right now. Try replay mode or
\* retry later.', and when the agent raises any unhandled exception the
\* response has code UPSTREAM_DOWN and the fixed text 'The analysis service
\* is temporarily unavailable. Please try again shortly.'
C27_ErrorEnvelopeSanitized ==
    \A r \in Requests :
        (Over(r) /\ IsRaise(req[r].outcome)) =>
            /\ (req[r].outcome.exc = "ContractError"
                    /\ req[r].outcome.code = "UPSTREAM_DOWN") =>
                   /\ req[r].response.error.code = "UPSTREAM_DOWN"
                   /\ req[r].response.error.message = FixedUpstreamDown
            /\ req[r].outcome.exc # "ContractError" =>
                   /\ req[r].response.error.code = "UPSTREAM_DOWN"
                   /\ req[r].response.error.message = FixedUnavailable

\* C29: a history of more than MAX_HISTORY entries is truncated to its last
\* MAX_HISTORY entries and a HISTORY_TRUNCATED warning carrying the original
\* count is added; the history handed to the agent never holds more than
\* MAX_HISTORY entries; a history of MAX_HISTORY or fewer entries is passed
\* unchanged with no such warning
C29_HistoryTruncated ==
    \A r \in Requests :
        req[r].pc # "new" =>
            LET truncated == {i \in 1..Len(req[r].warnings) :
                                 req[r].warnings[i].code = "HISTORY_TRUNCATED"}
            IN  /\ Len(req[r].agent_history) <= MAX_HISTORY
                /\ Len(req[r].history) > MAX_HISTORY =>
                       /\ req[r].agent_history = LastEntries(req[r].history)
                       /\ \E i \in truncated :
                              req[r].warnings[i].details.original_count
                                  = Len(req[r].history)
                /\ Len(req[r].history) <= MAX_HISTORY =>
                       /\ req[r].agent_history = req[r].history
                       /\ truncated = {}

\* C30: request context is per request under interleaving: when two
\* run_agent requests overlap, each request's tools run with that request's
\* own data_mode and allow_live_fetch, and each result carries exactly the
\* warnings, artifacts and cache-hit flags produced by its own tool calls
C30_ContextPerRequest ==
    \A r \in Requests :
        /\ \A i \in 1..Len(req[r].ran) :
               /\ req[r].ran[i].data_mode = req[r].data_mode
               /\ req[r].ran[i].allow_live_fetch = req[r].allow_live_fetch
        /\ Answered(r) =>
               /\ Codes(req[r].outcome.warnings) = Produced(r)
               /\ req[r].outcome.artifacts = ArtifactsFrom(req[r].ran, 1)
               /\ Len(req[r].outcome.tools_invoked) = Len(req[r].ran)
               /\ \A i \in 1..Len(req[r].ran) :
                      req[r].outcome.tools_invoked[i].cache_hit
                          = req[r].ran[i].cache_hit

====
